---- MODULE Spec2Model ----
(***************************************************************************)
(* Model of the minimum-wage tracker: the Streamlit app's load_data,        *)
(* derived-metrics, category-filter and calculator steps (src/app.py), the *)
(* archive builder (src/mw_tracker/create_mw_archive.py), the index        *)
(* builder (src/mw_tracker/fetch_indices.py), the scraper                  *)
(* (src/mw_tracker/scraper.py) and the currency normalisers.               *)
(*                                                                         *)
(* Numbers: a float cell is NULL (pandas NaN), INF, or an exact rational   *)
(* <<n, d>> in lowest terms with d > 0.  Floating-point rounding is not    *)
(* modelled; NaN and infinity are.                                         *)
(***************************************************************************)
EXTENDS Integers, Sequences, FiniteSets, TLC

VARIABLES
    archiveFile,   \* data/minimum_wage_archive.csv: "missing" or a sequence of wage rows
    latestFile,    \* data/latest_scraped_raw.csv: "missing" or [dtype, rows]
    indicesFile,   \* data/deflation_indices_4cols.csv: "missing" or a sequence of index rows
    pc,            \* position of the app script
    sortedDf,      \* load_data's df after sort_values('Date'), before ffill
    df,            \* the table load_data returns (the cached base table)
    params,        \* widget values of the current run
    runDf,         \* the run's df after the derived-metrics step
    current_index, \* the run's current_index
    branch,        \* which DisplayWage assignment the run executed
    widgets,       \* show_adult and selected_youth of the current run
    final_df,      \* the run's filtered table with its Category column
    calc,          \* what the run showed: the warning, or the calculator's widgets and metrics
    historicalFile,\* data/historical_weekly_adult_MW.csv: rows (period string, Nominal)
    scrapedFile,   \* data/minimum_wages_2019_2026.csv: rows as read_csv returns them
    archive_rows,  \* create_archive's archive_rows
    bpc,           \* position of create_archive
    rawCell,       \* the string handed to a currency normaliser
    cleaner,       \* the normaliser that ran on it
    cleaned,       \* what that normaliser did: the value returned, or raised
    series,        \* what parse_periods returned for CPI and CAO, and whether a CAO column was found
    index_table,   \* the table process_indices writes to deflation_indices_4cols.csv
    ipc,           \* position of process_indices
    overview,      \* the overview page: whether the fetch succeeds, and its links
    pages,         \* the linked pages by URL: fetch outcome, title, tables
    link_i,        \* the link scrape_latest's loop is at
    seen_urls,     \* scrape_latest's seen_urls
    fetched,       \* the URLs session.get was called with, in order
    all_data,      \* scrape_latest's all_data
    outputFile,    \* data/latest_scraped_raw.csv as scrape_latest leaves it
    spc            \* position of scrape_latest

appVars == <<archiveFile, latestFile, indicesFile, pc, sortedDf, df, params, runDf,
             current_index, branch>>

viewVars == <<widgets, final_df, calc>>

builderVars == <<historicalFile, scrapedFile, archive_rows, bpc>>

currencyVars == <<rawCell, cleaner, cleaned>>

indexVars == <<series, index_table, ipc>>

scraperVars == <<overview, pages, link_i, seen_urls, fetched, all_data, outputFile, spc>>

vars == <<appVars, viewVars, builderVars, currencyVars, indexVars, scraperVars>>

-----------------------------------------------------------------------------
(* Float cells *)

NULL == <<>>

INF == <<1, 0>>

IsNull(x) == x = NULL

NotNull(x) == x # NULL

Abs(i) == IF i < 0 THEN -i ELSE i

RECURSIVE GCD(_, _)
GCD(a, b) == IF b = 0 THEN a ELSE GCD(b, a % b)

Norm(n, d) ==
    LET g == GCD(Abs(n), Abs(d))
        s == IF d < 0 THEN -1 ELSE 1
    IN  <<(s * n) \div g, (s * d) \div g>>

Num(i) == <<i, 1>>

Cents(c) == Norm(c, 100)

IsZero(x) == x = <<0, 1>>

NEG_INF == <<-1, 0>>

IsInf(x) == x = INF \/ x = NEG_INF

Signed(inf, negative) == IF negative THEN (IF inf = INF THEN NEG_INF ELSE INF) ELSE inf

\* float multiplication on NULL / infinities / rationals: inf * 0 is NaN
Mul(a, b) ==
    IF IsNull(a) \/ IsNull(b) THEN NULL
    ELSE IF IsInf(a) \/ IsInf(b)
         THEN IF IsZero(a) \/ IsZero(b) THEN NULL
              ELSE Signed(INF, (a[1] < 0) # (b[1] < 0))
    ELSE Norm(a[1] * b[1], a[2] * b[2])

\* float division as numpy evaluates it: x/0 is inf, 0/0 and inf/inf are NaN
Div(a, b) ==
    IF IsNull(a) \/ IsNull(b) THEN NULL
    ELSE IF IsInf(b) THEN (IF IsInf(a) THEN NULL ELSE Num(0))
    ELSE IF IsInf(a) THEN Signed(a, b[1] < 0)
    ELSE IF IsZero(b) THEN (IF IsZero(a) THEN NULL ELSE Signed(INF, a[1] < 0))
    ELSE Norm(a[1] * b[2], a[2] * b[1])

\* float subtraction: inf - inf is NaN
Sub(a, b) ==
    IF IsNull(a) \/ IsNull(b) THEN NULL
    ELSE IF IsInf(a) THEN (IF a = b THEN NULL ELSE a)
    ELSE IF IsInf(b) THEN Signed(b, TRUE)
    ELSE Norm(a[1] * b[2] - b[1] * a[2], a[2] * b[2])

-----------------------------------------------------------------------------
(* Strings are sequences of one-character strings.  "EUR" is the euro sign; *)
(* "A_CIRC", "LOW9", "NOT" are the three characters of the mis-decoded euro *)
(* sign that clean_currency's source line spells; "x" is a letter that is   *)
(* part of no float literal.                                               *)

DigitChars == <<"0", "1", "2", "3", "4", "5", "6", "7", "8", "9">>

Digits == {DigitChars[i] : i \in 1..10}

DigitVal(c) == (CHOOSE i \in 1..10 : DigitChars[i] = c) - 1

MOJIBAKE_EUR == <<"A_CIRC", "LOW9", "NOT">>

RECURSIVE Pow10(_)
Pow10(k) == IF k = 0 THEN 1 ELSE 10 * Pow10(k - 1)

RECURSIVE DigitsVal(_)
DigitsVal(s) ==
    IF s = <<>> THEN 0
    ELSE 10 * DigitsVal(SubSeq(s, 1, Len(s) - 1)) + DigitVal(s[Len(s)])

IsPrefixAt(s, pat, i) ==
    /\ i + Len(pat) - 1 <= Len(s)
    /\ \A k \in 1..Len(pat) : s[i + k - 1] = pat[k]

\* str.replace(pat, rep): leftmost non-overlapping occurrences
RECURSIVE ReplaceFrom(_, _, _, _)
ReplaceFrom(s, pat, rep, i) ==
    IF i > Len(s) THEN <<>>
    ELSE IF IsPrefixAt(s, pat, i)
         THEN rep \o ReplaceFrom(s, pat, rep, i + Len(pat))
         ELSE <<s[i]>> \o ReplaceFrom(s, pat, rep, i + 1)

Replace(s, pat, rep) == ReplaceFrom(s, pat, rep, 1)

\* re.sub / str.replace(regex=True) with a character class: drop the characters in cls
DropChars(s, cls) == SelectSeq(s, LAMBDA c : c \notin cls)

KeepChars(s, cls) == SelectSeq(s, LAMBDA c : c \in cls)

RECURSIVE LStrip(_)
LStrip(s) == IF s # <<>> /\ s[1] = " " THEN LStrip(Tail(s)) ELSE s

RECURSIVE RStrip(_)
RStrip(s) ==
    IF s # <<>> /\ s[Len(s)] = " " THEN RStrip(SubSeq(s, 1, Len(s) - 1)) ELSE s

Strip(s) == RStrip(LStrip(s))

DotPos(s) == CHOOSE i \in 1..Len(s) : s[i] = "."

\* float(str) accepts: surrounding blanks, digits with at most one point and at
\* least one digit, and the literal nan
FloatOk(s) ==
    LET t == Strip(s)
    IN  \/ t = <<"n", "a", "n">>
        \/ /\ \A i \in 1..Len(t) : t[i] \in Digits \cup {"."}
           /\ Cardinality({i \in 1..Len(t) : t[i] = "."}) <= 1
           /\ \E i \in 1..Len(t) : t[i] \in Digits

FloatVal(s) ==
    LET t == Strip(s)
    IN  IF t = <<"n", "a", "n">> THEN NULL
        ELSE IF \E i \in 1..Len(t) : t[i] = "."
             THEN LET p == DotPos(t)
                      ip == SubSeq(t, 1, p - 1)
                      fp == SubSeq(t, p + 1, Len(t))
                  IN  Norm(DigitsVal(ip) * Pow10(Len(fp)) + DigitsVal(fp), Pow10(Len(fp)))
             ELSE Num(DigitsVal(t))

\* What a normaliser does with one cell: it returns a float cell or raises.
Returned(v) == [raised |-> FALSE, val |-> v]

Raised == [raised |-> TRUE, val |-> NULL]

\* create_mw_archive.clean_currency
clean_currency(val) ==
    IF IsNull(val) \/ val = <<>> THEN Returned(NULL)
    ELSE LET v == Replace(Replace(Replace(Replace(val, MOJIBAKE_EUR, <<>>),
                                          <<" ">>, <<>>), <<".">>, <<>>), <<",">>, <<".">>)
         IN  IF FloatOk(v) THEN Returned(FloatVal(v)) ELSE Returned(NULL)

\* scraper.clean_money
clean_money(val_str) ==
    IF IsNull(val_str) \/ val_str = <<>> THEN Returned(NULL)
    ELSE LET clean == Replace(KeepChars(val_str, Digits \cup {","}), <<",">>, <<".">>)
         IN  IF FloatOk(clean) THEN Returned(FloatVal(clean)) ELSE Returned(NULL)

\* astype(str) of one cell of an object column: NaN prints as nan
AsStr(cell) == IF IsNull(cell) THEN <<"n", "a", "n">> ELSE cell

\* load_data's cleaning of one Hourly_Statutory cell of the overlay
normalize_statutory(cell) ==
    LET v == Replace(DropChars(AsStr(cell), {"EUR", "."}), <<",">>, <<".">>)
    IN  IF FloatOk(v) THEN Returned(FloatVal(v)) ELSE Raised

-----------------------------------------------------------------------------
(* Tables are sequences of records. *)

RECURSIVE Flatten(_)
Flatten(ss) == IF ss = <<>> THEN <<>> ELSE Head(ss) \o Flatten(Tail(ss))

\* the elements of u at the positions in S, in order
RECURSIVE PickIdx(_, _)
PickIdx(u, S) ==
    IF S = {} THEN <<>>
    ELSE LET m == CHOOSE i \in S : \A j \in S : i <= j
         IN  <<u[m]>> \o PickIdx(u, S \ {m})

\* Series.unique(): the values in order of first appearance
RECURSIVE Unique(_)
Unique(ss) ==
    IF ss = <<>> THEN <<>>
    ELSE LET init == Unique(SubSeq(ss, 1, Len(ss) - 1))
             last == ss[Len(ss)]
         IN  IF \E i \in 1..Len(init) : init[i] = last THEN init ELSE Append(init, last)

WageRow(y, p, age, adult, h36, h38, h40, hs) ==
    [Year |-> y, Period |-> p, Age |-> age, IsAdult |-> adult,
     Hourly_36h |-> h36, Hourly_38h |-> h38, Hourly_40h |-> h40,
     Hourly_Statutory |-> hs]

\* a row of latest_scraped_raw.csv: the scraper writes these five columns only
LatestRow(y, p, age, adult, hs) ==
    [Year |-> y, Period |-> p, Age |-> age, IsAdult |-> adult, Hourly_Statutory |-> hs]

IndexRow(y, p, mcao, mcpi, ycao, ycpi) ==
    [Year |-> y, Period |-> p, monthly_cao |-> mcao, monthly_cpi |-> mcpi,
     yearly_cao |-> ycao, yearly_cpi |-> ycpi]

idx_cols == <<"monthly_cao", "monthly_cpi", "yearly_cao", "yearly_cpi">>

-----------------------------------------------------------------------------
(* fetch_indices.process_indices, from the parsed series to the saved table *)

START_YEAR == 2002

\* pd.Timestamp.now().year at the time the index table was built
NowYear == 2025

\* a skeleton that stops at the current year
Skeleton_NoNextYear ==
    Flatten([i \in 1..(NowYear + 1 - START_YEAR) |->
                <<[Year |-> START_YEAR + i - 1, Period |-> "January"],
                  [Year |-> START_YEAR + i - 1, Period |-> "July"]>>])

\* range(START_YEAR, now.year + 2) x (January, July)
Skeleton ==
    Flatten([i \in 1..(NowYear + 2 - START_YEAR) |->
                <<[Year |-> START_YEAR + i - 1, Period |-> "January"],
                  [Year |-> START_YEAR + i - 1, Period |-> "July"]>>])

\* pd.merge(base, yearly, on='Year', how='left'), Value renamed to ycol, then
\* pd.merge(tmp, monthly, on=['Year','Period'], how='left'), Value renamed to mcol.
\* yearly is keyed by Year (groupby('Year').last()); monthly is a sequence of
\* observations, and a left merge yields one row per matching observation.
attach_data(base, monthly, yearly, mcol, ycol) ==
    LET withYearly(r) ==
            [c \in DOMAIN r \cup {ycol} |->
                IF c = ycol
                THEN (IF r.Year \in DOMAIN yearly THEN yearly[r.Year] ELSE NULL)
                ELSE r[c]]
        matches(r) ==
            SelectSeq(monthly, LAMBDA m : m.Year = r.Year /\ m.Period = r.Period)
        put(r, v) == [c \in DOMAIN r \cup {mcol} |-> IF c = mcol THEN v ELSE r[c]]
        expand(r) ==
            IF matches(r) = <<>> THEN <<put(r, NULL)>>
            ELSE [k \in 1..Len(matches(r)) |-> put(r, matches(r)[k].Value)]
    IN  Flatten([i \in 1..Len(base) |-> expand(withYearly(base[i]))])

process_indices(cpi_monthly, cpi_yearly, cao_monthly, cao_yearly) ==
    LET withCpi == attach_data(Skeleton, cpi_monthly, cpi_yearly, "monthly_cpi", "yearly_cpi")
        withCao == attach_data(withCpi, cao_monthly, cao_yearly, "monthly_cao", "yearly_cao")
    IN  SelectSeq(withCao, LAMBDA r : r.Year >= START_YEAR)

-----------------------------------------------------------------------------
(* app.load_data *)

File(rows) == [exists |-> TRUE, rows |-> rows]

Missing == [exists |-> FALSE, rows |-> <<>>]

\* the overlay file also records what dtype read_csv gives Hourly_Statutory:
\* "float" when every cell parses as a number, "object" when cells are strings
LatestFile(dtype, rows) == [exists |-> TRUE, dtype |-> dtype, rows |-> rows]

LatestMissing == [exists |-> FALSE, dtype |-> "float", rows |-> <<>>]

month_map == [January |-> 1, July |-> 7]

NaT == <<>>

\* pd.to_datetime(Year + "-" + Period.map(month_map) + "-01"): NaT when the
\* period is not a key of month_map
DateOf(r) ==
    IF r.Period \in DOMAIN month_map THEN <<r.Year, month_map[r.Period]>> ELSE NaT

DateLt(a, b) ==
    /\ a # NaT
    /\ \/ b = NaT
       \/ a[1] < b[1]
       \/ a[1] = b[1] /\ a[2] < b[2]

\* the cleaning of the overlay's Hourly_Statutory column (object dtype only)
CleanLatest(latest) ==
    IF latest.dtype = "object"
    THEN [i \in 1..Len(latest.rows) |->
            [latest.rows[i] EXCEPT
                !.Hourly_Statutory = normalize_statutory(@).val]]
    ELSE latest.rows

CleanLatestRaises(latest) ==
    /\ latest.dtype = "object"
    /\ \E i \in 1..Len(latest.rows) :
          normalize_statutory(latest.rows[i].Hourly_Statutory).raised

\* pd.concat([df_wages, df_latest]): columns the overlay lacks are NaN
Concat(wages, latest) ==
    wages \o [i \in 1..Len(latest) |->
                WageRow(latest[i].Year, latest[i].Period, latest[i].Age,
                        latest[i].IsAdult, NULL, NULL, NULL,
                        latest[i].Hourly_Statutory)]

MergedRow(w, ix) ==
    [c \in DOMAIN w \cup {idx_cols[k] : k \in 1..4} |->
        IF c \in DOMAIN w THEN w[c] ELSE ix[c]]

NullIndex == [c \in {idx_cols[k] : k \in 1..4} |-> NULL]

\* pd.merge(df_wages, df_indices, on=['Year','Period'], how='left')
MergeLeft(wages, indices) ==
    LET matches(w) ==
            SelectSeq(indices, LAMBDA x : x.Year = w.Year /\ x.Period = w.Period)
        expand(w) ==
            IF matches(w) = <<>> THEN <<MergedRow(w, NullIndex)>>
            ELSE [k \in 1..Len(matches(w)) |-> MergedRow(w, matches(w)[k])]
    IN  Flatten([i \in 1..Len(wages) |-> expand(wages[i])])

WithDate(t) ==
    [i \in 1..Len(t) |->
        [c \in DOMAIN t[i] \cup {"Date"} |-> IF c = "Date" THEN DateOf(t[i]) ELSE t[i][c]]]

RemoveAt(t, i) == SubSeq(t, 1, i - 1) \o SubSeq(t, i + 1, Len(t))

\* df.sort_values('Date'): ascending, NaT last; the default sort is not stable,
\* so rows with equal dates come out in any order
RECURSIVE SortOutcomes(_)
SortOutcomes(t) ==
    IF t = <<>> THEN {<<>>}
    ELSE UNION {
            {<<t[i]>> \o rest : rest \in SortOutcomes(RemoveAt(t, i))} :
            i \in {j \in 1..Len(t) : \A k \in 1..Len(t) : ~DateLt(t[k].Date, t[j].Date)}}

\* a fill that looks one row back only (ffill(limit=1))
RECURSIVE ffill_Limit1(_)
ffill_Limit1(t) ==
    IF Len(t) <= 1 THEN t
    ELSE LET done == ffill_Limit1(SubSeq(t, 1, Len(t) - 1))
             prev == t[Len(t) - 1]
             last == t[Len(t)]
         IN  Append(done,
                    [c \in DOMAIN last |->
                        IF c \in {idx_cols[k] : k \in 1..4} /\ IsNull(last[c])
                        THEN prev[c] ELSE last[c]])

\* df[idx_cols].ffill(): each column carries its last non-null value forward
RECURSIVE ffill(_)
ffill(t) ==
    IF Len(t) <= 1 THEN t
    ELSE LET done == ffill(SubSeq(t, 1, Len(t) - 1))
             prev == done[Len(done)]
             last == t[Len(t)]
         IN  Append(done,
                    [c \in DOMAIN last |->
                        IF c \in {idx_cols[k] : k \in 1..4} /\ IsNull(last[c])
                        THEN prev[c] ELSE last[c]])

Table(rows) == [isNone |-> FALSE, rows |-> rows]

None == [isNone |-> TRUE, rows |-> <<>>]

NoParams == [hour_basis |-> 0, deflator_key |-> "unset"]

\* load_data returns None: the archive is missing
LoadDataNone ==
    /\ pc = "start"
    /\ ~archiveFile.exists
    /\ df' = None
    /\ pc' = "no_archive"
    /\ UNCHANGED <<archiveFile, latestFile, indicesFile, sortedDf, params, runDf,
                   current_index, branch,
                   viewVars, builderVars, currencyVars, indexVars, scraperVars>>

\* load_data raises: .astype(float) meets a cell that is no float literal
LoadDataRaises ==
    /\ pc = "start"
    /\ archiveFile.exists
    /\ latestFile.exists
    /\ CleanLatestRaises(latestFile)
    /\ pc' = "raised"
    /\ UNCHANGED <<archiveFile, latestFile, indicesFile, sortedDf, df, params, runDf,
                   current_index, branch,
                   viewVars, builderVars, currencyVars, indexVars, scraperVars>>

\* load_data returns the merged, sorted, forward-filled table
LoadData ==
    /\ pc = "start"
    /\ archiveFile.exists
    /\ ~(latestFile.exists /\ CleanLatestRaises(latestFile))
    /\ LET df_wages == IF latestFile.exists
                       THEN Concat(archiveFile.rows, CleanLatest(latestFile))
                       ELSE archiveFile.rows
           df_indices == IF indicesFile.exists THEN indicesFile.rows ELSE <<>>
           merged == WithDate(MergeLeft(df_wages, df_indices))
       IN  \E sorted \in SortOutcomes(merged) :
              /\ sortedDf' = sorted
              /\ df' = Table(ffill(sorted))
    /\ pc' = "loaded"
    /\ UNCHANGED <<archiveFile, latestFile, indicesFile, params, runDf,
                   current_index, branch,
                   viewVars, builderVars, currencyVars, indexVars, scraperVars>>

\* df is None: st.error(...); st.stop()
StopNoArchive ==
    /\ pc = "no_archive"
    /\ pc' = "stopped"
    /\ UNCHANGED <<archiveFile, latestFile, indicesFile, sortedDf, df, params, runDf,
                   current_index, branch,
                   viewVars, builderVars, currencyVars, indexVars, scraperVars>>

-----------------------------------------------------------------------------
(* app.py section 4: the derived metrics of one script run *)

WORKWEEKS == {36, 38, 40}

DEFLATORS == {"None", "M_CPI", "M_CAO", "Y_CPI", "Y_CAO"}

REGIME_YEAR == 2024

pre_2024_col(hour_basis) ==
    CASE hour_basis = 36 -> "Hourly_36h"
      [] hour_basis = 38 -> "Hourly_38h"
      [] hour_basis = 40 -> "Hourly_40h"

col_map ==
    [M_CPI |-> <<"monthly_cpi", "yearly_cpi">>,
     M_CAO |-> <<"monthly_cao", "yearly_cao">>,
     Y_CPI |-> <<"yearly_cpi", "yearly_cpi">>,
     Y_CAO |-> <<"yearly_cao", "yearly_cao">>]

Extend(r, f) == [c \in DOMAIN r \cup DOMAIN f |-> IF c \in DOMAIN f THEN f[c] ELSE r[c]]

\* the regime test off by one: 2024 rows read the pre-2024 column
NominalWage_OffByOne(r, hour_basis) ==
    IF r.Year <= REGIME_YEAR THEN r[pre_2024_col(hour_basis)] ELSE r.Hourly_Statutory

\* np.where(df['Year'] < 2024, df[pre_2024_col], df['Hourly_Statutory'])
NominalWage(r, hour_basis) ==
    IF r.Year < REGIME_YEAR THEN r[pre_2024_col(hour_basis)] ELSE r.Hourly_Statutory

\* combine_first with its operands swapped: the fallback column wins
Effective_Index_Swapped(r, deflator_key) ==
    LET p_col == col_map[deflator_key][1]
        f_col == col_map[deflator_key][2]
    IN  IF NotNull(r[f_col]) THEN r[f_col] ELSE r[p_col]

\* df[p_col].combine_first(df[f_col])
Effective_Index(r, deflator_key) ==
    LET p_col == col_map[deflator_key][1]
        f_col == col_map[deflator_key][2]
    IN  IF NotNull(r[p_col]) THEN r[p_col] ELSE r[f_col]

\* the zero test dropped
UseToday_NoZeroTest(cur) == NotNull(cur)

\* pd.notna(current_index) and current_index != 0
UseToday(cur) == NotNull(cur) /\ ~IsZero(cur)

\* which assignment to df['DisplayWage'] a run executes
BranchOf(deflator_key, cur) ==
    IF deflator_key = "None" THEN "nominal"
    ELSE IF UseToday(cur) THEN "today" ELSE "index100"

\* the nominal branch deflating as the fallback branch does
DisplayWage_AlwaysDeflate(nominal, eff, cur, br) ==
    CASE br = "nominal" -> Div(nominal, Div(eff, Num(100)))
      [] br = "today" -> Div(nominal, Div(eff, cur))
      [] br = "index100" -> Div(nominal, Div(eff, Num(100)))

\* the three assignments to df['DisplayWage']
DisplayWage(nominal, eff, cur, br) ==
    CASE br = "nominal" -> nominal
      [] br = "today" -> Div(nominal, Div(eff, cur))
      [] br = "index100" -> Div(nominal, Div(eff, Num(100)))

\* sections 4.2 and 4.3 on a copy of the cached table; Effective_Index and
\* current_index exist only when a deflator is chosen
Derive(rows, hour_basis, deflator_key) ==
    LET nom(i) == NominalWage(rows[i], hour_basis)
        eff(i) == IF deflator_key = "None" THEN NULL
                  ELSE Effective_Index(rows[i], deflator_key)
        cur == eff(Len(rows))
        br == BranchOf(deflator_key, cur)
        cols(i) == IF deflator_key = "None"
                   THEN [NominalWage |-> nom(i),
                         DisplayWage |-> DisplayWage(nom(i), eff(i), cur, br)]
                   ELSE [NominalWage |-> nom(i),
                         Effective_Index |-> eff(i),
                         DisplayWage |-> DisplayWage(nom(i), eff(i), cur, br)]
    IN  [table |-> [i \in 1..Len(rows) |-> Extend(rows[i], cols(i))],
         current_index |-> cur,
         branch |-> br]

-----------------------------------------------------------------------------
(* Category filter, warning and growth calculator of one run *)

ADULT_LABELS == {"23+", "22+", "21+", "Adult"}

\* the options of the youth multiselect
all_ages(rows) == {rows[i].Age : i \in 1..Len(rows)} \ ADULT_LABELS

DefaultWidgets == [show_adult |-> TRUE, selected_youth |-> {}]

\* np.where(IsAdult, cat_adult, cat_age + Age)
Category(r) == IF r.IsAdult THEN <<"Adult">> ELSE <<"Age", r.Age>>

\* the mask that takes adult rows whatever the toggle says
mask_KeepAdults(r, show_adult, selected_youth) ==
    r.IsAdult \/ (r.Age \in selected_youth /\ ~r.IsAdult)

\* mask_adult | mask_youth
mask(r, show_adult, selected_youth) ==
    (r.IsAdult /\ show_adult) \/ (r.Age \in selected_youth /\ ~r.IsAdult)

FilterRows(table, show_adult, selected_youth) ==
    LET kept == PickIdx(table, {i \in 1..Len(table) : mask(table[i], show_adult, selected_youth)})
    IN  [i \in 1..Len(kept) |-> Extend(kept[i], [Category |-> Category(kept[i])])]

NoCalc ==
    [display |-> "none", available_dates |-> <<>>, categories |-> <<>>,
     s_date_str |-> NaT, e_date_str |-> NaT, target_cat |-> <<>>,
     metrics |-> FALSE, val1 |-> NULL, val2 |-> NULL, diff |-> NULL, pct |-> NULL]

\* (diff / val1) * 100 if val1 != 0 else 0; NaN != 0 is true
pct(diff, val1) == IF ~IsZero(val1) THEN Mul(Div(diff, val1), Num(100)) ELSE Num(0)

\* the growth that subtracts the wrong way round
diff_Reversed(val2, val1) == Sub(val1, val2)

diff(val2, val1) == Sub(val2, val1)

NoPick == [widget |-> "none", value |-> <<>>]

\* a selectbox keeps the value of the last run while its options are the same,
\* takes the value the user picks, and else starts at its default index
Selected(widget, options, old_options, old_value, default, pick) ==
    IF pick.widget = widget THEN pick.value
    ELSE IF options = old_options THEN old_value
    ELSE default

\* strftime('%Y-%m') == s_date_str: NaN equals nothing, itself included
RowsAt(subset, date_str) ==
    PickIdx(subset, {i \in 1..Len(subset) : date_str # NaT /\ subset[i].Date = date_str})

\* section 6 of the script, for a non-empty final_df
Calculator(final, old, pick) ==
    LET available_dates == Unique([i \in 1..Len(final) |-> final[i].Date])
        categories == Unique([i \in 1..Len(final) |-> final[i].Category])
        s_date_str == Selected("calc_start", available_dates, old.available_dates,
                               old.s_date_str, available_dates[1], pick)
        e_date_str == Selected("calc_end", available_dates, old.available_dates,
                               old.e_date_str, available_dates[Len(available_dates)], pick)
        target_cat == Selected("calc_group", categories, old.categories,
                               old.target_cat, categories[1], pick)
        subset == PickIdx(final, {i \in 1..Len(final) : final[i].Category = target_cat})
        row_start == RowsAt(subset, s_date_str)
        row_end == RowsAt(subset, e_date_str)
        shown == row_start # <<>> /\ row_end # <<>>
        val1 == row_start[1].DisplayWage
        val2 == row_end[1].DisplayWage
    IN  [display |-> "shown", available_dates |-> available_dates, categories |-> categories,
         s_date_str |-> s_date_str, e_date_str |-> e_date_str, target_cat |-> target_cat,
         metrics |-> shown,
         val1 |-> IF shown THEN val1 ELSE NULL,
         val2 |-> IF shown THEN val2 ELSE NULL,
         diff |-> IF shown THEN diff(val2, val1) ELSE NULL,
         pct |-> IF shown THEN pct(diff(val2, val1), val1) ELSE NULL]

\* if final_df.empty: st.warning(...) else: chart, calculator, data table
Shown(final, old, pick) ==
    IF final = <<>> THEN [NoCalc EXCEPT !.display = "warning"]
    ELSE Calculator(final, old, pick)

\* st.cache_data hands every run its own copy of the cached table: what the run
\* assigns to its df does not reach the cache
CacheAfter_Shared(cached, table) == [cached EXCEPT !.rows = table]

CacheAfter(cached, table) == cached

\* one run of the script with the cached table, from the widgets to the calculator
Rerun(hour_basis, deflator_key, show_adult, selected_youth, pick) ==
    /\ pc \in {"loaded", "ran"}
    /\ LET d == Derive(df.rows, hour_basis, deflator_key)
       IN  /\ runDf' = d.table
           /\ current_index' = d.current_index
           /\ branch' = d.branch
    /\ final_df' = FilterRows(runDf', show_adult, selected_youth)
    /\ calc' = Shown(final_df', calc, pick)
    /\ df' = CacheAfter(df, runDf')
    /\ params' = [hour_basis |-> hour_basis, deflator_key |-> deflator_key]
    /\ widgets' = [show_adult |-> show_adult, selected_youth |-> selected_youth]
    /\ pc' = "ran"
    /\ UNCHANGED <<archiveFile, latestFile, indicesFile, sortedDf,
                   builderVars, currencyVars, indexVars, scraperVars>>

\* the user sets the workweek and the wage type / deflator
Run(hour_basis, deflator_key) ==
    Rerun(hour_basis, deflator_key, widgets.show_adult, widgets.selected_youth, NoPick)

\* the user sets the adult toggle and the youth multiselect
SetCategories(show_adult, selected_youth) ==
    /\ pc = "ran"
    /\ selected_youth \subseteq all_ages(df.rows)
    /\ Rerun(params.hour_basis, params.deflator_key, show_adult, selected_youth, NoPick)

\* the user picks a value in one of the calculator's three selectboxes
SelectCalc(widget, value) ==
    /\ pc = "ran"
    /\ calc.display = "shown"
    /\ \/ widget \in {"calc_start", "calc_end"}
          /\ \E k \in 1..Len(calc.available_dates) : calc.available_dates[k] = value
       \/ widget = "calc_group"
          /\ \E k \in 1..Len(calc.categories) : calc.categories[k] = value
    /\ Rerun(params.hour_basis, params.deflator_key, widgets.show_adult,
             widgets.selected_youth, [widget |-> widget, value |-> value])

-----------------------------------------------------------------------------
(* The input files of the app *)

\* subsequences of u (file order kept) of lengths lo..hi
SubSeqs(u, lo, hi) ==
    {PickIdx(u, S) : S \in {T \in SUBSET (1..Len(u)) : Cardinality(T) \in lo..hi}}

MaxArchiveRows == 3

MaxMonthlyObs == 2

\* archive rows in the order create_archive writes them (per year July block first)
ArchiveUniverse ==
    <<WageRow(2023, "July", "21+", TRUE, Cents(1279), Cents(1212), Cents(1151), NULL),
      WageRow(2023, "January", "23+", TRUE, Cents(1250), Cents(1184), Cents(1125), NULL),
      WageRow(2024, "January", "21+", TRUE, NULL, NULL, NULL, Cents(1327)),
      WageRow(2024, "January", "20", FALSE, NULL, NULL, NULL, Cents(1062))>>

Archives == {File(a) : a \in SubSeqs(ArchiveUniverse, 1, MaxArchiveRows)}

\* overlay files: as the scraper writes them (numbers), and with currency strings
LatestFiles ==
    {LatestMissing,
     LatestFile("float", <<LatestRow(2026, "January", "21+", TRUE, Cents(1471))>>),
     LatestFile("float", <<LatestRow(2026, "January", "21+", TRUE, Cents(1471)),
                           LatestRow(2026, "Unknown", "21+", TRUE, Cents(1471))>>),
     LatestFile("object", <<LatestRow(2026, "January", "21+", TRUE,
                                      <<"EUR", " ", "1", "4", ",", "7", "1">>),
                            LatestRow(2026, "July", "21+", TRUE, NULL)>>),
     LatestFile("object", <<LatestRow(2026, "January", "21+", TRUE, <<"x">>)>>)}

Obs(y, p, v) == [Year |-> y, Period |-> p, Value |-> v]

\* parsed monthly CPI observations; two of them are for the same January
CpiMonthlyUniverse ==
    <<Obs(2023, "July", Num(110)), Obs(2024, "January", Num(120)),
      Obs(2024, "January", Num(125))>>

NoYearly == [y \in {} |-> NULL]

\* parsed yearly CPI values with the parsed CAO series of the same fetch
YearlyChoices ==
    {[cpi_yearly |-> NoYearly, cao_monthly |-> <<>>, cao_yearly |-> NoYearly],
     [cpi_yearly |-> (2023 :> Num(100)),
      cao_monthly |-> <<Obs(2023, "January", Num(105))>>,
      cao_yearly |-> (2023 :> Num(100)) @@ (2024 :> Num(110))],
     [cpi_yearly |-> (2023 :> Num(100)) @@ (2024 :> Num(0)),
      cao_monthly |-> <<>>, cao_yearly |-> NoYearly]}

IndexFiles ==
    {Missing} \cup
    {File(process_indices(m, c.cpi_yearly, c.cao_monthly, c.cao_yearly)) :
        m \in SubSeqs(CpiMonthlyUniverse, 0, MaxMonthlyObs), c \in YearlyChoices}

BuilderIdle ==
    /\ historicalFile = <<>>
    /\ scrapedFile = <<>>
    /\ archive_rows = <<>>
    /\ bpc = "idle"

IndexIdle ==
    /\ series = <<>>
    /\ index_table = <<>>
    /\ ipc = "idle"

ScraperIdle ==
    /\ overview = <<>>
    /\ pages = <<>>
    /\ link_i = 0
    /\ seen_urls = {}
    /\ fetched = <<>>
    /\ all_data = <<>>
    /\ outputFile = LatestMissing
    /\ spc = "idle"

CurrencyIdle ==
    /\ rawCell = <<>>
    /\ cleaner = "none"
    /\ cleaned = Returned(NULL)

AppIdle ==
    /\ archiveFile = Missing
    /\ latestFile = LatestMissing
    /\ indicesFile = Missing
    /\ pc = "off"
    /\ sortedDf = <<>>
    /\ df = None
    /\ params = NoParams
    /\ runDf = <<>>
    /\ current_index = NULL
    /\ branch = "unset"
    /\ widgets = DefaultWidgets
    /\ final_df = <<>>
    /\ calc = NoCalc

Init ==
    /\ archiveFile \in Archives \cup {Missing}
    /\ latestFile \in LatestFiles
    /\ indicesFile \in IndexFiles
    /\ pc = "start"
    /\ sortedDf = <<>>
    /\ df = None
    /\ params = NoParams
    /\ runDf = <<>>
    /\ current_index = NULL
    /\ branch = "unset"
    /\ widgets = DefaultWidgets
    /\ final_df = <<>>
    /\ calc = NoCalc
    /\ BuilderIdle
    /\ CurrencyIdle
    /\ IndexIdle
    /\ ScraperIdle

Next ==
    \/ LoadDataNone
    \/ LoadDataRaises
    \/ LoadData
    \/ StopNoArchive
    \/ \E w \in WORKWEEKS, d \in DEFLATORS : Run(w, d)

Spec == Init /\ [][Next]_vars

-----------------------------------------------------------------------------
(* Properties of the derived metrics and of load_data, under Spec *)

Ran == pc = "ran"

Deflated == Ran /\ params.deflator_key # "None"

HourlyColumnOf(w) ==
    IF w = 36 THEN "Hourly_36h" ELSE IF w = 38 THEN "Hourly_38h" ELSE "Hourly_40h"

BaseFieldsKept ==
    /\ Len(runDf) = Len(df.rows)
    /\ \A i \in 1..Len(runDf) : \A c \in DOMAIN df.rows[i] : runDf[i][c] = df.rows[i][c]

\* C1: in every run, each row's NominalWage is its Hourly_{W}h column when
\* Year < 2024 and its Hourly_Statutory column when Year >= 2024, W being the
\* run's workweek selection; the row is otherwise the merged row.
C1_NominalWageByRegime ==
    Ran =>
        /\ BaseFieldsKept
        /\ \A i \in 1..Len(runDf) :
              /\ runDf[i].Year < 2024 =>
                    runDf[i].NominalWage = df.rows[i][HourlyColumnOf(params.hour_basis)]
              /\ runDf[i].Year >= 2024 =>
                    runDf[i].NominalWage = df.rows[i].Hourly_Statutory

\* a run with W = 38 over a table with a priced row on each side of 2024
C1_Witness ==
    /\ Ran
    /\ params.hour_basis = 38
    /\ \E i \in 1..Len(runDf) : runDf[i].Year < 2024 /\ runDf[i].NominalWage = Cents(1184)
    /\ \E i \in 1..Len(runDf) : runDf[i].Year >= 2024 /\ runDf[i].NominalWage = Cents(1327)

LastRowIsLatest(t) ==
    \A i \in 1..Len(t) : ~DateLt(t[Len(t)].Date, t[i].Date)

\* C2: with a deflator chosen, current_index is the effective index of the last
\* row in chronological order; when it is non-null and non-zero every row has
\* DisplayWage = NominalWage * current_index / effective_index, otherwise every
\* row has DisplayWage = NominalWage / (effective_index / 100); one branch per run.
C2_DisplayWageBranches ==
    Deflated =>
        /\ LastRowIsLatest(runDf)
        /\ current_index = runDf[Len(runDf)].Effective_Index
        /\ branch \in {"today", "index100"}
        /\ branch = "today" <=> (current_index # NULL /\ current_index # Num(0))
        /\ branch = "today" =>
              \A i \in 1..Len(runDf) :
                 runDf[i].DisplayWage =
                    Div(Mul(runDf[i].NominalWage, current_index), runDf[i].Effective_Index)
        /\ branch = "index100" =>
              \A i \in 1..Len(runDf) :
                 runDf[i].DisplayWage =
                    Div(runDf[i].NominalWage, Div(runDf[i].Effective_Index, Num(100)))

\* a today-branch run that changed the wage of an earlier row
C2_Witness ==
    /\ Deflated
    /\ branch = "today"
    /\ \E i \in 1..Len(runDf) :
          /\ NotNull(runDf[i].DisplayWage)
          /\ runDf[i].DisplayWage # runDf[i].NominalWage

PrimaryOf(d) ==
    IF d = "M_CPI" THEN "monthly_cpi" ELSE IF d = "M_CAO" THEN "monthly_cao"
    ELSE IF d = "Y_CPI" THEN "yearly_cpi" ELSE "yearly_cao"

FallbackOf(d) == IF d \in {"M_CPI", "Y_CPI"} THEN "yearly_cpi" ELSE "yearly_cao"

\* C3: with a deflator chosen, each row's effective index is its primary column
\* when that is non-null and its fallback column otherwise, and is null only
\* when both columns are null in that row.
C3_EffectiveIndex ==
    Deflated =>
        \A i \in 1..Len(runDf) :
           LET r == runDf[i]
               p == df.rows[i][PrimaryOf(params.deflator_key)]
               f == df.rows[i][FallbackOf(params.deflator_key)]
           IN  /\ p # NULL => r.Effective_Index = p
               /\ p = NULL => r.Effective_Index = f
               /\ r.Effective_Index = NULL <=> (p = NULL /\ f = NULL)

\* a monthly deflator on a row whose monthly value is missing and whose yearly
\* value differs from the monthly value of another row
C3_Witness ==
    /\ Deflated
    /\ params.deflator_key = "M_CPI"
    /\ \E i \in 1..Len(runDf) :
          /\ runDf[i].monthly_cpi = NULL
          /\ runDf[i].Effective_Index = Num(100)
    /\ \E i \in 1..Len(runDf) : runDf[i].Effective_Index = Num(110)

LatestDateRows(t) ==
    {i \in 1..Len(t) : t[i].Date # NaT /\ \A k \in 1..Len(t) : ~DateLt(t[i].Date, t[k].Date)}

\* C4: whenever the today branch is used, every row dated at the last date of
\* the table has DisplayWage equal to NominalWage.
C4_RebaseInvariant ==
    (Ran /\ branch = "today") =>
        \A i \in LatestDateRows(runDf) : runDf[i].DisplayWage = runDf[i].NominalWage

\* C5: with deflator None, DisplayWage equals NominalWage in every row; the
\* row (2023, January, 23+, Hourly_36h = 12.50) with W = 36 gives 12.50 twice.
C5_NominalDisplay ==
    (Ran /\ params.deflator_key = "None") =>
        /\ \A i \in 1..Len(runDf) : runDf[i].DisplayWage = runDf[i].NominalWage
        /\ \A i \in 1..Len(runDf) :
              (/\ params.hour_basis = 36
               /\ runDf[i].Year = 2023 /\ runDf[i].Period = "January"
               /\ runDf[i].Age = "23+" /\ runDf[i].Hourly_36h = Cents(1250))
              => (runDf[i].NominalWage = Cents(1250) /\ runDf[i].DisplayWage = Cents(1250))

\* the scenario of the claim, on a table that has index values
C5_Witness ==
    /\ Ran
    /\ params.deflator_key = "None"
    /\ params.hour_basis = 36
    /\ \E i \in 1..Len(runDf) :
          /\ runDf[i].Age = "23+"
          /\ runDf[i].DisplayWage = Cents(1250)
          /\ runDf[i].yearly_cpi # NULL

Loaded == pc \in {"loaded", "ran"}

SortedByDate(t) == \A i, j \in 1..Len(t) : i < j => ~DateLt(t[j].Date, t[i].Date)

PriorKnown(t, i, c) == {j \in 1..(i - 1) : t[j][c] # NULL}

MaxOf(S) == CHOOSE m \in S : \A k \in S : k <= m

\* C6: load_data's table is in ascending Date order and, in each index column,
\* a cell that was non-null is unchanged, a null cell holds the value of the
\* most recent prior row that had one, and stays null exactly when no prior row
\* had one; nothing else in a row changes.
C6_ForwardFill ==
    Loaded =>
        /\ SortedByDate(sortedDf)
        /\ Len(df.rows) = Len(sortedDf)
        /\ \A i \in 1..Len(sortedDf) :
              /\ \A c \in DOMAIN sortedDf[i] \ {idx_cols[k] : k \in 1..4} :
                    df.rows[i][c] = sortedDf[i][c]
              /\ \A k \in 1..4 :
                    LET c == idx_cols[k]
                        P == PriorKnown(sortedDf, i, c)
                    IN  /\ sortedDf[i][c] # NULL => df.rows[i][c] = sortedDf[i][c]
                        /\ (sortedDf[i][c] = NULL /\ P # {}) =>
                              df.rows[i][c] = sortedDf[MaxOf(P)][c]
                        /\ (sortedDf[i][c] = NULL /\ P = {}) => df.rows[i][c] = NULL

\* a table read out of date order, with a leading null that stays null and a
\* null filled over a null neighbour from two rows back
C6_Witness ==
    /\ Loaded
    /\ \E i \in 1..Len(sortedDf) : sortedDf[i].monthly_cpi = NULL /\ df.rows[i].monthly_cpi = NULL
    /\ \E i \in 3..Len(sortedDf) :
          /\ sortedDf[i].monthly_cpi = NULL
          /\ sortedDf[i - 1].monthly_cpi = NULL
          /\ df.rows[i].monthly_cpi = Num(110)
    /\ sortedDf[1].Year = 2023 /\ sortedDf[1].Period = "January"

-----------------------------------------------------------------------------
(* The currency normalisers, each applied to one cell *)

MaxStrLen == 3

CurrencyAlphabet == {"1", "3", ",", ".", " ", "EUR", "x"}

RECURSIVE StringsUpTo(_, _)
StringsUpTo(A, n) ==
    IF n = 0 THEN {<<>>}
    ELSE LET shorter == StringsUpTo(A, n - 1)
         IN  shorter \cup {Append(t, c) : t \in shorter, c \in A}

EuroString == <<"EUR", " ", "1", ".", "2", "3", "4", ",", "5", "6">>

PlainString == <<"1", "3", ",", "2", "7">>

MojibakeString == MOJIBAKE_EUR \o <<" ", "1", ".", "2", "3", "4", ",", "5", "6">>

CurrencyInputs ==
    StringsUpTo(CurrencyAlphabet, MaxStrLen) \cup {EuroString, PlainString, MojibakeString}

InitCurrency ==
    /\ rawCell \in CurrencyInputs
    /\ cleaner = "none"
    /\ cleaned = Returned(NULL)
    /\ AppIdle
    /\ BuilderIdle
    /\ IndexIdle
    /\ ScraperIdle

CleanCurrency ==
    /\ cleaner = "none"
    /\ cleaner' = "clean_currency"
    /\ cleaned' = clean_currency(rawCell)
    /\ UNCHANGED <<rawCell, appVars, viewVars, builderVars, indexVars, scraperVars>>

CleanMoney ==
    /\ cleaner = "none"
    /\ cleaner' = "clean_money"
    /\ cleaned' = clean_money(rawCell)
    /\ UNCHANGED <<rawCell, appVars, viewVars, builderVars, indexVars, scraperVars>>

NormalizeStatutory ==
    /\ cleaner = "none"
    /\ cleaner' = "load_data"
    /\ cleaned' = normalize_statutory(rawCell)
    /\ UNCHANGED <<rawCell, appVars, viewVars, builderVars, indexVars, scraperVars>>

NextCurrency == CleanCurrency \/ CleanMoney \/ NormalizeStatutory

SpecCurrency == InitCurrency /\ [][NextCurrency]_vars

\* C9: clean_currency and clean_money turn the string "EUR 1.234,56" (with the
\* euro sign) into 1234.56 and the string "13,27" into 13.27.
C9_CurrencyExamples ==
    cleaner \in {"clean_currency", "clean_money"} =>
        /\ rawCell = EuroString => cleaned = Returned(Norm(123456, 100))
        /\ rawCell = PlainString => cleaned = Returned(Norm(1327, 100))

\* C10: every normaliser completes on every input string and yields a number
\* or null; an empty input and an input with no digits yield null.
C10_NeverRaises ==
    cleaner # "none" =>
        /\ ~cleaned.raised
        /\ (\A i \in 1..Len(rawCell) : rawCell[i] \notin Digits) => cleaned.val = NULL

-----------------------------------------------------------------------------
(* create_mw_archive.create_archive *)

Contains(s, pat) == \E i \in 1..Len(s) : IsPrefixAt(s, pat, i)

DASH == "-"

FirstDash(s) == CHOOSE i \in 1..Len(s) : s[i] = DASH /\ \A j \in 1..(i - 1) : s[j] # DASH

\* s.split('-')[0] and s.split('-')[1], for s with a dash in it
SplitFirst(s) == SubSeq(s, 1, FirstDash(s) - 1)

SplitSecond(s) ==
    LET rest == SubSeq(s, FirstDash(s) + 1, Len(s))
    IN  IF DASH \in {rest[i] : i \in 1..Len(rest)} THEN SplitFirst(rest) ELSE rest

\* int(str): surrounding blanks and at least one digit, digits only
IntOk(s) == Strip(s) # <<>> /\ \A i \in 1..Len(Strip(s)) : Strip(s)[i] \in Digits

IntVal(s) == DigitsVal(Strip(s))

\* round(x, 2) of a non-negative float: to the nearest cent, ties to even
Round2(x) ==
    IF IsNull(x) THEN NULL
    ELSE LET q == (x[1] * 100) \div x[2]
             r == (x[1] * 100) % x[2]
         IN  IF 2 * r > x[2] \/ (2 * r = x[2] /\ q % 2 = 1) THEN Cents(q + 1) ELSE Cents(q)

Pct(age, permille) == [age |-> age, pct |-> Norm(permille, 1000)]

STAFFEL_PRE_2017 ==
    <<Pct(<<"2", "2">>, 850), Pct(<<"2", "1">>, 725), Pct(<<"2", "0">>, 615), Pct(<<"1", "9">>, 525),
      Pct(<<"1", "8">>, 455), Pct(<<"1", "7">>, 395), Pct(<<"1", "6">>, 345), Pct(<<"1", "5">>, 300)>>

\* the post-2017 table with the age-20 fraction of the old table
STAFFEL_POST_2017_Old20 ==
    <<Pct(<<"2", "1">>, 850), Pct(<<"2", "0">>, 615), Pct(<<"1", "9">>, 550), Pct(<<"1", "8">>, 475),
      Pct(<<"1", "7">>, 395), Pct(<<"1", "6">>, 345), Pct(<<"1", "5">>, 300)>>

STAFFEL_POST_2017 ==
    <<Pct(<<"2", "1">>, 850), Pct(<<"2", "0">>, 700), Pct(<<"1", "9">>, 550), Pct(<<"1", "8">>, 475),
      Pct(<<"1", "7">>, 395), Pct(<<"1", "6">>, 345), Pct(<<"1", "5">>, 300)>>

HIST_END_YEAR == 2019

ARCHIVE_LAST_YEAR == 2025

\* the regime test with the January of 2017 forgotten
is_pre_july_2017_NoJanuary(year, month) == year < 2017

\* (year < 2017) or (year == 2017 and month == 1)
is_pre_july_2017(year, month) == year < 2017 \/ (year = 2017 /\ month = 1)

\* the rows one historical input row adds; a period without a dash and a year
\* from 2019 on add none
HistoricalRows(row) ==
    LET period_str == row.period
        year == IntVal(SplitFirst(period_str))
        month == IntVal(SplitSecond(period_str))
        period == IF month = 1 THEN "January" ELSE "July"
        nominal == row.Nominal
        pre == is_pre_july_2017(year, month)
        adult_age == IF pre THEN <<"2", "3", "+">> ELSE <<"2", "2", "+">>
        staffel == IF pre THEN STAFFEL_PRE_2017 ELSE STAFFEL_POST_2017
        hourly(fraction, w) == Round2(Div(Mul(nominal, fraction), Num(w)))
    IN  IF ~Contains(period_str, <<DASH>>) \/ year >= HIST_END_YEAR THEN <<>>
        ELSE <<WageRow(year, period, adult_age, TRUE,
                       Round2(Div(nominal, Num(36))), Round2(Div(nominal, Num(38))),
                       Round2(Div(nominal, Num(40))), NULL)>>
             \o [k \in 1..Len(staffel) |->
                    WageRow(year, period, staffel[k].age, FALSE,
                            hourly(staffel[k].pct, 36), hourly(staffel[k].pct, 38),
                            hourly(staffel[k].pct, 40), NULL)]

\* int(...) of the year or the month raises ValueError
HistoricalRaises(row) ==
    /\ Contains(row.period, <<DASH>>)
    /\ ~IntOk(SplitFirst(row.period)) \/ ~IntOk(SplitSecond(row.period))

\* the age columns the scraped file has, in file order
AgeColumns == <<<<"2", "2", " ", "j", "a", "a", "r", " ", "e", "n", " ", "o", "u", "d", "e", "r">>,
                <<"2", "1", " ", "j", "a", "a", "r", " ", "e", "n", " ", "o", "u", "d", "e", "r">>,
                <<"2", "1", " ", "j", "a", "a", "r">>,
                <<"2", "0", " ", "j", "a", "a", "r">>>>

COL_WORKWEEK == <<"F", "u", "l", "l", "t", "i", "m", "e", " ", "w", "e", "r", "k", "w", "e", "e", "k", " ", "i", "n", " ", "b", "e", "d", "r", "i", "j", "f">>

\* sect.columns
ScrapedColumns ==
    <<<<"Y", "e", "a", "r">>, <<"S", "e", "c", "t", "i", "o", "n">>, COL_WORKWEEK>>
    \o AgeColumns
    \o <<<<"L", "e", "e", "f", "t", "i", "j", "d">>,
         <<"M", "i", "n", "i", "m", "u", "m", "l", "o", "o", "n", " ", "p", "e", "r", " ", "u", "u", "r">>>>

ScrapedRow(year, section, workweek, ages, leeftijd, minloon) ==
    [Year |-> year, Section |-> section, Workweek |-> workweek, ages |-> ages,
     Leeftijd |-> leeftijd, MinLoon |-> minloon]

\* the cell of an age column
AgeCell(row, col) == row.ages[CHOOSE k \in 1..Len(AgeColumns) : AgeColumns[k] = col]

\* every column of cols_to_clean the file has, passed through clean_currency
CleanScraped(rows) ==
    [i \in 1..Len(rows) |->
        [rows[i] EXCEPT !.ages = [k \in 1..Len(AgeColumns) |-> clean_currency(rows[i].ages[k]).val],
                        !.MinLoon = clean_currency(rows[i].MinLoon).val]]

\* col.replace(' jaar en ouder', '+').replace(' jaar', '')
AgeLabel(col) == Replace(Replace(col, <<" ", "j", "a", "a", "r", " ", "e", "n", " ", "o", "u", "d", "e", "r">>, <<"+">>), <<" ", "j", "a", "a", "r">>, <<>>)

is_adult(year, period, age) ==
    \/ year = 2019 /\ period = "January" /\ age = <<"2", "2", "+">>
    \/ year = 2019 /\ period = "July" /\ age = <<"2", "1", "+">>
    \/ year > 2019 /\ age = <<"2", "1", "+">>

\* indices[i:i + 3] for i in range(0, len(indices), 3)
Blocks(rows) ==
    [b \in 1..((Len(rows) + 2) \div 3) |->
        SubSeq(rows, 3 * b - 2, IF 3 * b <= Len(rows) THEN 3 * b ELSE Len(rows))]

HasLabel(sect, w) == \E i \in 1..Len(sect) : Contains(sect[i].Workweek, w)

\* sect[sect[workweek].str.contains(w, na=False)][col].values[0]
LabelValue(sect, w, col) ==
    AgeCell(sect[CHOOSE i \in 1..Len(sect) :
                    /\ Contains(sect[i].Workweek, w)
                    /\ \A j \in 1..(i - 1) : ~Contains(sect[j].Workweek, w)], col)

\* for col in sect.columns: if 'jaar' in col or '21+' in col
IsAgeColumn(col) == Contains(col, <<"j", "a", "a", "r">>) \/ Contains(col, <<"2", "1", "+">>)

LoopColumns ==
    PickIdx(ScrapedColumns, {k \in 1..Len(ScrapedColumns) : IsAgeColumn(ScrapedColumns[k])})

\* the rows of one block of a year before 2024; idx counts from 0
BlockRows(year, idx, sect) ==
    LET period == IF idx = 0 THEN "July" ELSE "January"
        cols == LoopColumns
    IN  [k \in 1..Len(cols) |->
            WageRow(year, period, AgeLabel(cols[k]),
                    is_adult(year, period, AgeLabel(cols[k])),
                    LabelValue(sect, <<"3", "6">>, cols[k]),
                    LabelValue(sect, <<"3", "8">>, cols[k]),
                    LabelValue(sect, <<"4", "0">>, cols[k]), NULL)]

\* .values[0] of an empty selection raises IndexError
BlockRaises(sect) ==
    /\ LoopColumns # <<>>
    /\ \E w \in {<<"3", "6">>, <<"3", "8">>, <<"4", "0">>} : ~HasLabel(sect, w)

UpperCase ==
    <<"A", "B", "C", "D", "E", "F", "G", "H", "I", "J", "K", "L", "M",
      "N", "O", "P", "Q", "R", "S", "T", "U", "V", "W", "X", "Y", "Z">>

LowerCase ==
    <<"a", "b", "c", "d", "e", "f", "g", "h", "i", "j", "k", "l", "m",
      "n", "o", "p", "q", "r", "s", "t", "u", "v", "w", "x", "y", "z">>

\* str.lower()
Lower(s) ==
    [i \in 1..Len(s) |->
        IF \E k \in 1..Len(UpperCase) : UpperCase[k] = s[i]
        THEN LowerCase[CHOOSE k \in 1..Len(UpperCase) : UpperCase[k] = s[i]]
        ELSE s[i]]

\* the rows of one section of a year from 2024 on
SectionRows(year, section, y_df) ==
    LET period == IF Contains(Lower(section), <<"j", "a", "n", "u", "a", "r", "i">>)
                  THEN "January" ELSE "July"
        s_df == PickIdx(y_df, {i \in 1..Len(y_df) : y_df[i].Section = section})
    IN  [k \in 1..Len(s_df) |->
            WageRow(year, period, AgeLabel(AsStr(s_df[k].Leeftijd)),
                    AgeLabel(AsStr(s_df[k].Leeftijd)) = <<"2", "1", "+">>,
                    NULL, NULL, NULL, s_df[k].MinLoon)]

REGIME_2024 == 2024

\* the rows one year of the scraped file adds
YearRows(year, df_s) ==
    LET y_df == PickIdx(df_s, {i \in 1..Len(df_s) : df_s[i].Year = year})
        blocks == Blocks(PickIdx(y_df, {i \in 1..Len(y_df) : NotNull(y_df[i].Workweek)}))
        sections == Unique([i \in 1..Len(y_df) |-> y_df[i].Section])
    IN  IF year > ARCHIVE_LAST_YEAR THEN <<>>
        ELSE IF year < REGIME_2024
        THEN Flatten([b \in 1..Len(blocks) |-> BlockRows(year, b - 1, blocks[b])])
        ELSE Flatten([k \in 1..Len(sections) |-> SectionRows(year, sections[k], y_df)])

\* a block without one of the three labels, or .lower() of a missing Section
YearRaises(year, df_s) ==
    LET y_df == PickIdx(df_s, {i \in 1..Len(df_s) : df_s[i].Year = year})
        blocks == Blocks(PickIdx(y_df, {i \in 1..Len(y_df) : NotNull(y_df[i].Workweek)}))
    IN  /\ year <= ARCHIVE_LAST_YEAR
        /\ IF year < REGIME_2024
           THEN \E b \in 1..Len(blocks) : BlockRaises(blocks[b])
           ELSE \E i \in 1..Len(y_df) : IsNull(y_df[i].Section)

\* sorted(df_s['Year'].unique())
RECURSIVE SortedYears(_)
SortedYears(Y) ==
    IF Y = {} THEN <<>>
    ELSE LET m == CHOOSE y \in Y : \A z \in Y : y <= z
         IN  <<m>> \o SortedYears(Y \ {m})

create_archive_raises(df_old, scraped) ==
    \/ \E i \in 1..Len(df_old) : HistoricalRaises(df_old[i])
    \/ \E i \in 1..Len(scraped) : YearRaises(scraped[i].Year, CleanScraped(scraped))

\* archive_rows when nothing raises
create_archive(df_old, scraped) ==
    LET df_s == CleanScraped(scraped)
        years == SortedYears({df_s[i].Year : i \in 1..Len(df_s)})
    IN  Flatten([i \in 1..Len(df_old) |-> HistoricalRows(df_old[i])])
        \o Flatten([k \in 1..Len(years) |-> YearRows(years[k], df_s)])

CreateArchive ==
    /\ bpc = "start"
    /\ ~create_archive_raises(historicalFile, scrapedFile)
    /\ archive_rows' = create_archive(historicalFile, scrapedFile)
    /\ bpc' = "done"
    /\ UNCHANGED <<historicalFile, scrapedFile, appVars, viewVars, currencyVars, indexVars, scraperVars>>

\* an exception leaves the archive file unwritten
CreateArchiveRaises ==
    /\ bpc = "start"
    /\ create_archive_raises(historicalFile, scrapedFile)
    /\ bpc' = "raised"
    /\ UNCHANGED <<historicalFile, scrapedFile, archive_rows, appVars, viewVars, currencyVars, indexVars, scraperVars>>

-----------------------------------------------------------------------------
(* Inputs of the archive builder *)

MaxHistRows == 2

MaxSections == 3

HistRow(period, cents) == [period |-> period, Nominal |-> Cents(cents)]

\* weekly adult wages by period; a 2019 row, a row without a dash and a row
\* whose year is not a number
HistUniverse ==
    <<HistRow(<<"2", "0", "1", "6", "-", "0", "7">>, 35475),
      HistRow(<<"2", "0", "1", "7", "-", "0", "1">>, 35805),
      HistRow(<<"2", "0", "1", "7", "-", "0", "7">>, 36140),
      HistRow(<<"2", "0", "1", "8", "-", "0", "7">>, 36800),
      HistRow(<<"2", "0", "1", "9", "-", "0", "1">>, 37290),
      HistRow(<<"2", "0", "1", "7">>, 35805),
      HistRow(<<"x", "-", "0", "1">>, 35805)>>

Euro(amount) == MOJIBAKE_EUR \o <<" ">> \o amount

NoAges == [k \in 1..Len(AgeColumns) |-> NULL]

\* a table of the scraped page of a year before 2024: one row per workweek
PreBlock(year, a36, a38, a40) ==
    <<ScrapedRow(year, NULL, <<"3", "6", " ", "u", "u", "r", " ", "p", "e", "r", " ", "w", "e", "e", "k">>, a36, NULL, NULL),
      ScrapedRow(year, NULL, <<"3", "8", " ", "u", "u", "r", " ", "p", "e", "r", " ", "w", "e", "e", "k">>, a38, NULL, NULL),
      ScrapedRow(year, NULL, <<"4", "0", " ", "u", "u", "r", " ", "p", "e", "r", " ", "w", "e", "e", "k">>, a40, NULL, NULL)>>

\* a table whose 40-hour row is missing
BlockWithout40(year, a36, a38) ==
    <<ScrapedRow(year, NULL, <<"3", "6", " ", "u", "u", "r", " ", "p", "e", "r", " ", "w", "e", "e", "k">>, a36, NULL, NULL),
      ScrapedRow(year, NULL, <<"3", "8", " ", "u", "u", "r", " ", "p", "e", "r", " ", "w", "e", "e", "k">>, a38, NULL, NULL)>>

\* a table of a year from 2024 on: one row per age
PostSection(year, section, adult, youth) ==
    <<ScrapedRow(year, section, NULL, NoAges, <<"2", "1", " ", "j", "a", "a", "r", " ", "e", "n", " ", "o", "u", "d", "e", "r">>, adult),
      ScrapedRow(year, section, NULL, NoAges, <<"2", "0", " ", "j", "a", "a", "r">>, youth)>>

ScrapedUniverse ==
    <<PreBlock(2019, <<NULL, Euro(<<"1", "0", ",", "4", "9">>), NULL, Euro(<<"7", ",", "3", "4">>)>>,
                     <<NULL, Euro(<<"9", ",", "9", "4">>), NULL, Euro(<<"6", ",", "9", "6">>)>>,
                     <<NULL, Euro(<<"9", ",", "4", "4">>), NULL, Euro(<<"6", ",", "6", "1">>)>>),
      PreBlock(2019, <<Euro(<<"1", "0", ",", "3", "6">>), NULL, Euro(<<"8", ",", "8", "1">>), Euro(<<"7", ",", "2", "5">>)>>,
                     <<Euro(<<"9", ",", "8", "2">>), NULL, Euro(<<"8", ",", "3", "4">>), Euro(<<"6", ",", "8", "7">>)>>,
                     <<Euro(<<"9", ",", "3", "3">>), NULL, Euro(<<"7", ",", "9", "3">>), Euro(<<"6", ",", "5", "3">>)>>),
      PreBlock(2019, <<Euro(<<"1", "0", ",", "2", "0">>), NULL, Euro(<<"8", ",", "6", "7">>), Euro(<<"7", ",", "1", "4">>)>>,
                     <<Euro(<<"9", ",", "6", "6">>), NULL, Euro(<<"8", ",", "2", "1">>), Euro(<<"6", ",", "7", "6">>)>>,
                     <<Euro(<<"9", ",", "1", "8">>), NULL, Euro(<<"7", ",", "8", "0">>), Euro(<<"6", ",", "4", "3">>)>>),
      BlockWithout40(2022, <<NULL, Euro(<<"1", "1", ",", "0", "6">>), NULL, Euro(<<"8", ",", "8", "5">>)>>,
                           <<NULL, Euro(<<"1", "0", ",", "4", "8">>), NULL, Euro(<<"8", ",", "3", "8">>)>>),
      PreBlock(2023, <<NULL, Euro(<<"1", "2", ",", "7", "9">>), NULL, Euro(<<"1", "0", ",", "2", "3">>)>>,
                     <<NULL, Euro(<<"1", "2", ",", "1", "2">>), NULL, Euro(<<"9", ",", "6", "9">>)>>,
                     <<NULL, Euro(<<"1", "1", ",", "5", "1">>), NULL, Euro(<<"9", ",", "2", "1">>)>>),
      PostSection(2024, <<"P", "e", "r", " ", "1", " ", "J", "a", "n", "u", "a", "r", "i", " ", "2", "0", "2", "4">>, Euro(<<"1", "3", ",", "2", "7">>), Euro(<<"1", "0", ",", "6", "2">>)),
      PostSection(2024, <<"P", "e", "r", " ", "1", " ", "j", "u", "l", "i", " ", "2", "0", "2", "4">>, Euro(<<"1", "3", ",", "6", "8">>), Euro(<<"1", "0", ",", "9", "4">>)),
      PostSection(2026, <<"P", "e", "r", " ", "1", " ", "j", "a", "n", "u", "a", "r", "i", " ", "2", "0", "2", "6">>, Euro(<<"1", "4", ",", "7", "1">>), Euro(<<"1", "1", ",", "7", "7">>))>>

InitBuilder ==
    /\ AppIdle
    /\ CurrencyIdle
    /\ IndexIdle
    /\ ScraperIdle
    /\ historicalFile \in SubSeqs(HistUniverse, 0, MaxHistRows)
    /\ scrapedFile \in {Flatten(ss) : ss \in SubSeqs(ScrapedUniverse, 0, MaxSections)}
    /\ archive_rows = <<>>
    /\ bpc = "start"

NextBuilder == CreateArchive \/ CreateArchiveRaises

SpecBuilder == InitBuilder /\ [][NextBuilder]_vars

-----------------------------------------------------------------------------
(* Claims about the archive builder *)

Built == bpc = "done"

\* periods in time order: two per year, January before July
PeriodKey(year, period) == 2 * year + (IF period = "July" THEN 1 ELSE 0)

ThresholdAge(year, period) ==
    IF PeriodKey(year, period) < PeriodKey(2017, "July") THEN <<"2", "3", "+">>
    ELSE IF PeriodKey(year, period) <= PeriodKey(2019, "January") THEN <<"2", "2", "+">>
    ELSE <<"2", "1", "+">>

\* C7: in the archive create_archive writes, every row marked IsAdult carries
\* the adult threshold age of its period: '23+' before July 2017, '22+' from
\* July 2017 through January 2019, '21+' from July 2019 on; no row with
\* another Age is marked adult.
C7_AdultThresholdAge ==
    Built =>
        \A i \in 1..Len(archive_rows) :
            archive_rows[i].IsAdult =>
                archive_rows[i].Age = ThresholdAge(archive_rows[i].Year, archive_rows[i].Period)

\* an archive with adult rows of all three threshold ages
C7_Witness ==
    /\ Built
    /\ \A age \in {<<"2", "3", "+">>, <<"2", "2", "+">>, <<"2", "1", "+">>} :
          \E i \in 1..Len(archive_rows) :
              archive_rows[i].IsAdult /\ archive_rows[i].Age = age

\* the two staffel tables as the claim spells them, in thousandths
C8_PreTable ==
    <<<<<<"2", "2">>, 850>>, <<<<"2", "1">>, 725>>, <<<<"2", "0">>, 615>>, <<<<"1", "9">>, 525>>,
      <<<<"1", "8">>, 455>>, <<<<"1", "7">>, 395>>, <<<<"1", "6">>, 345>>, <<<<"1", "5">>, 300>>>>

C8_PostTable ==
    <<<<<<"2", "1">>, 850>>, <<<<"2", "0">>, 700>>, <<<<"1", "9">>, 550>>, <<<<"1", "8">>, 475>>,
      <<<<"1", "7">>, 395>>, <<<<"1", "6">>, 345>>, <<<<"1", "5">>, 300>>>>

\* the historical input rows the builder processes, as (year, period, nominal)
C8_Processed ==
    {[year |-> IntVal(SplitFirst(historicalFile[i].period)),
      period |-> IF IntVal(SplitSecond(historicalFile[i].period)) = 1 THEN "January" ELSE "July",
      nominal |-> historicalFile[i].Nominal] :
        i \in {j \in 1..Len(historicalFile) :
                  /\ DASH \in {historicalFile[j].period[k] : k \in 1..Len(historicalFile[j].period)}
                  /\ IntVal(SplitFirst(historicalFile[j].period)) < 2019}}

C8_TableOf(h) ==
    IF PeriodKey(h.year, h.period) < PeriodKey(2017, "July") THEN C8_PreTable ELSE C8_PostTable

C8_YouthRows(h, age) ==
    {i \in 1..Len(archive_rows) :
        /\ archive_rows[i].Year = h.year
        /\ archive_rows[i].Period = h.period
        /\ archive_rows[i].Age = age
        /\ ~archive_rows[i].IsAdult}

\* C8 as stated: for every historical period before 2019 and every age of the
\* applicable staffel table the archive has a youth row whose wage equals
\* round(adult_weekly_wage * staffel_pct[age], 2).
C8_YouthWeeklyWage ==
    Built =>
        \A h \in C8_Processed :
            \A k \in 1..Len(C8_TableOf(h)) :
                \E i \in C8_YouthRows(h, C8_TableOf(h)[k][1]) :
                    LET weekly == Round2(Mul(h.nominal, Norm(C8_TableOf(h)[k][2], 1000)))
                    IN  \/ archive_rows[i].Hourly_36h = weekly
                        \/ archive_rows[i].Hourly_38h = weekly
                        \/ archive_rows[i].Hourly_40h = weekly
                        \/ archive_rows[i].Hourly_Statutory = weekly

\* C8, amended: for every historical period before 2019 and every age of the
\* applicable staffel table (the pre-2017-07 table before July 2017, the
\* post-2017-07 table otherwise) the archive has a youth row whose hourly wage
\* for each workweek W of 36, 38 and 40 hours equals
\* round(adult_weekly_wage * staffel_pct[age] / W, 2), and whose statutory
\* hourly wage is missing.
C8_YouthHourlyWage ==
    Built =>
        \A h \in C8_Processed :
            \A k \in 1..Len(C8_TableOf(h)) :
                \E i \in C8_YouthRows(h, C8_TableOf(h)[k][1]) :
                    LET weekly == Mul(h.nominal, Norm(C8_TableOf(h)[k][2], 1000))
                    IN  /\ archive_rows[i].Hourly_36h = Round2(Div(weekly, Num(36)))
                        /\ archive_rows[i].Hourly_38h = Round2(Div(weekly, Num(38)))
                        /\ archive_rows[i].Hourly_40h = Round2(Div(weekly, Num(40)))
                        /\ IsNull(archive_rows[i].Hourly_Statutory)

\* an archive built from a period of each staffel regime
C8_Witness ==
    /\ Built
    /\ \E g, h \in C8_Processed :
          /\ C8_TableOf(g) = C8_PreTable
          /\ C8_TableOf(h) = C8_PostTable
          /\ C8_YouthRows(g, <<"2", "2">>) # {}
          /\ C8_YouthRows(h, <<"2", "0">>) # {}

\* the rows the builder writes for a well-formed historical row
C11_WellFormed(h) ==
    /\ Contains(h.period, <<DASH>>)
    /\ IntOk(SplitFirst(h.period))
    /\ IntOk(SplitSecond(h.period))
    /\ IntVal(SplitFirst(h.period)) < HIST_END_YEAR

\* C11: create_archive never raises because of one malformed input row: a
\* historical row whose period cannot be parsed as year-month is skipped, a
\* pre-2024 block lacking one of the 36/38/40 labels does not abort the build,
\* and the well-formed rows before and after the bad one are in the archive.
C11_MalformedRowSkipped ==
    /\ bpc # "raised"
    /\ Built =>
          \A k \in 1..Len(historicalFile) :
              C11_WellFormed(historicalFile[k]) =>
                  \E i \in 1..Len(archive_rows) :
                      /\ archive_rows[i].IsAdult
                      /\ archive_rows[i].Year = IntVal(SplitFirst(historicalFile[k].period))
                      /\ archive_rows[i].Hourly_40h
                            = Round2(Div(historicalFile[k].Nominal, Num(40)))

C17_Hourly(r) == NotNull(r.Hourly_36h) /\ NotNull(r.Hourly_38h) /\ NotNull(r.Hourly_40h)

C17_NoHourly(r) == IsNull(r.Hourly_36h) /\ IsNull(r.Hourly_38h) /\ IsNull(r.Hourly_40h)

\* C17: every archive row has exactly one wage representation by regime: a
\* row with Year < 2024 has Hourly_Statutory null and its wage in the three
\* hourly-basis columns, a row with Year >= 2024 has the three hourly-basis
\* columns null and Hourly_Statutory populated.
C17_OneRepresentation ==
    Built =>
        \A i \in 1..Len(archive_rows) :
            IF archive_rows[i].Year < 2024
            THEN IsNull(archive_rows[i].Hourly_Statutory) /\ C17_Hourly(archive_rows[i])
            ELSE C17_NoHourly(archive_rows[i]) /\ NotNull(archive_rows[i].Hourly_Statutory)

\* C18: the archive has one row per (Year, Period, Age): no two rows of an
\* archive built from any historical and scraped input share the key.
C18_UniqueKey ==
    Built =>
        \A i, j \in 1..Len(archive_rows) :
            (/\ archive_rows[i].Year = archive_rows[j].Year
             /\ archive_rows[i].Period = archive_rows[j].Period
             /\ archive_rows[i].Age = archive_rows[j].Age) => i = j

C23_AdultRows(year, period) ==
    {i \in 1..Len(archive_rows) :
        /\ archive_rows[i].Year = year
        /\ archive_rows[i].Period = period
        /\ archive_rows[i].IsAdult}

C23_NumericAge(age) == age # <<>> /\ \A k \in 1..Len(age) : age[k] \in Digits

\* the number in the adult threshold label of a period: 23, 22 or 21
C23_ThresholdYears(year, period) == DigitsVal(SubSeq(ThresholdAge(year, period), 1, 2))

\* C23: for every (Year, Period) present in the archive create_archive writes
\* there is exactly one row with IsAdult true, and no row with IsAdult false
\* has an Age label ending in '+' or a numeric age at or above the adult
\* threshold age of its period.
C23_OneAdultPerPeriod ==
    Built =>
        \A i \in 1..Len(archive_rows) :
            LET r == archive_rows[i]
            IN  /\ Cardinality(C23_AdultRows(r.Year, r.Period)) = 1
                /\ ~r.IsAdult =>
                      /\ r.Age # <<>> => r.Age[Len(r.Age)] # "+"
                      /\ C23_NumericAge(r.Age) =>
                            DigitsVal(r.Age) < C23_ThresholdYears(r.Year, r.Period)

-----------------------------------------------------------------------------
(* The app with every widget in play, on a few small inputs *)

\* archives with an adult and two youth ages, a row without any wage and a
\* row whose wage is zero
ViewArchives ==
    {File(<<WageRow(2023, "January", "21+", TRUE, Cents(1200), Cents(1137), Cents(1080), NULL),
            WageRow(2024, "January", "21+", TRUE, NULL, NULL, NULL, Cents(1327))>>),
     File(<<WageRow(2023, "January", "21+", TRUE, Cents(1200), Cents(1137), Cents(1080), NULL),
            WageRow(2023, "January", "20", FALSE, Cents(960), Cents(909), Cents(864), NULL),
            WageRow(2023, "July", "20", FALSE, NULL, NULL, NULL, NULL),
            WageRow(2024, "January", "21+", TRUE, NULL, NULL, NULL, Cents(1327)),
            WageRow(2024, "January", "20", FALSE, NULL, NULL, NULL, Cents(1062))>>),
     File(<<WageRow(2022, "July", "19", FALSE, Num(0), Num(0), Num(0), NULL),
            WageRow(2023, "January", "21+", TRUE, Cents(1200), Cents(1137), Cents(1080), NULL),
            WageRow(2024, "January", "19", FALSE, NULL, NULL, NULL, Cents(730)),
            WageRow(2024, "January", "21+", TRUE, NULL, NULL, NULL, Cents(1327))>>)}

ViewLatestFiles ==
    {LatestMissing,
     LatestFile("float", <<LatestRow(2026, "January", "21+", TRUE, Cents(1471)),
                           LatestRow(2026, "Unknown", "21+", TRUE, Cents(1471))>>)}

ViewIndexFiles ==
    {File(process_indices(<<Obs(2023, "January", Num(100)), Obs(2024, "January", Num(120))>>,
                          (2023 :> Num(100)) @@ (2024 :> Num(110)), <<>>, NoYearly))}

InitView ==
    /\ archiveFile \in ViewArchives
    /\ latestFile \in ViewLatestFiles
    /\ indicesFile \in ViewIndexFiles
    /\ pc = "start"
    /\ sortedDf = <<>>
    /\ df = None
    /\ params = NoParams
    /\ runDf = <<>>
    /\ current_index = NULL
    /\ branch = "unset"
    /\ widgets = DefaultWidgets
    /\ final_df = <<>>
    /\ calc = NoCalc
    /\ BuilderIdle
    /\ CurrencyIdle
    /\ IndexIdle
    /\ ScraperIdle

NextView ==
    \/ LoadData
    \/ \E w \in WORKWEEKS, d \in DEFLATORS : Run(w, d)
    \/ \E a \in BOOLEAN, y \in SUBSET all_ages(df.rows) : SetCategories(a, y)
    \/ \E w \in {"calc_start", "calc_end"},
          v \in {calc.available_dates[k] : k \in 1..Len(calc.available_dates)} : SelectCalc(w, v)
    \/ \E v \in {calc.categories[k] : k \in 1..Len(calc.categories)} : SelectCalc("calc_group", v)

SpecView == InitView /\ [][NextView]_vars

-----------------------------------------------------------------------------
(* Claims about the category filter, the calculator and the input files *)

\* C12: in the growth calculator, whenever the start value is null or zero
\* the percentage growth is the sentinel 0 and no NaN or infinite result is
\* produced, for every end value.
C12_GrowthSentinel ==
    (calc.metrics /\ (IsNull(calc.val1) \/ IsZero(calc.val1))) => calc.pct = Num(0)

\* the rows of the selected category at a date
C13_RowsAt(date) ==
    {i \in 1..Len(final_df) :
        final_df[i].Category = calc.target_cat /\ date # NaT /\ final_df[i].Date = date}

\* C13: for a selected category, start date and end date that each have a
\* row, the calculator reports the category's wage at the start date, its
\* wage at the end date, diff = end - start and, for a non-zero start,
\* pct = (end - start) / start * 100; start 12.00 at 2023-01 and end 13.27 at
\* 2024-01 for the Adult category give diff = 1.27 and pct = 10.58 to two
\* decimals.
C13_GrowthCalculator ==
    (/\ calc.display = "shown"
     /\ C13_RowsAt(calc.s_date_str) # {}
     /\ C13_RowsAt(calc.e_date_str) # {}) =>
        /\ calc.metrics
        /\ \E i \in C13_RowsAt(calc.s_date_str) : calc.val1 = final_df[i].DisplayWage
        /\ \E i \in C13_RowsAt(calc.e_date_str) : calc.val2 = final_df[i].DisplayWage
        /\ calc.diff = Sub(calc.val2, calc.val1)
        /\ ~IsZero(calc.val1) =>
              calc.pct = Mul(Div(Sub(calc.val2, calc.val1), calc.val1), Num(100))
        /\ (/\ calc.val1 = Cents(1200)
            /\ calc.val2 = Cents(1327)) =>
              calc.diff = Cents(127) /\ Round2(calc.pct) = Cents(1058)

\* the Adult category from 12.00 at 2023-01 to 13.27 at 2024-01
C13_Witness ==
    /\ calc.metrics
    /\ calc.target_cat = <<"Adult">>
    /\ calc.s_date_str = <<2023, 1>>
    /\ calc.e_date_str = <<2024, 1>>
    /\ calc.val1 = Cents(1200)
    /\ calc.val2 = Cents(1327)

C14_Kept ==
    {i \in 1..Len(runDf) :
        \/ runDf[i].IsAdult /\ widgets.show_adult
        \/ ~runDf[i].IsAdult /\ runDf[i].Age \in widgets.selected_youth}

\* C14: the category filter keeps exactly the rows with (IsAdult and
\* show_adult) or (not IsAdult and Age among the selected youth ages), each
\* kept row has one category (Adult when IsAdult, else its Age); with
\* show_adult off and no youth age selected the result is empty and shown as
\* a warning, and neither chart nor calculator is computed.
C14_CategoryFilter ==
    Ran =>
        /\ Len(final_df) = Cardinality(C14_Kept)
        /\ \A k \in 1..Len(final_df) :
              /\ \A c \in DOMAIN runDf[1] : final_df[k][c] = PickIdx(runDf, C14_Kept)[k][c]
              /\ DOMAIN final_df[k] = DOMAIN runDf[1] \cup {"Category"}
              /\ final_df[k].Category
                    = IF final_df[k].IsAdult THEN <<"Adult">> ELSE <<"Age", final_df[k].Age>>
        /\ (~widgets.show_adult /\ widgets.selected_youth = {}) =>
              /\ final_df = <<>>
              /\ calc.display = "warning"
              /\ ~calc.metrics
        /\ final_df # <<>> => calc.display = "shown"

\* a run with the adult toggle off and no youth age, after a run that showed rows
C14_Witness ==
    /\ Ran
    /\ ~widgets.show_adult
    /\ widgets.selected_youth = {}
    /\ runDf # <<>>
    /\ calc.display = "warning"

C15_WageColumns ==
    {"Year", "Period", "Age", "IsAdult", "Hourly_36h", "Hourly_38h", "Hourly_40h",
     "Hourly_Statutory"}

C15_Count(t, r) == Cardinality({i \in 1..Len(t) : [c \in C15_WageColumns |-> t[i][c]] = r})

\* C15: wage archive missing -> load_data yields no table and the run stops
\* before any derived metric, chart or calculator; overlay missing -> the
\* merged table contains exactly the archive rows; index table missing -> the
\* run proceeds, every row has all four index columns null, and with a
\* deflator other than None the rebase-to-100 branch is taken.
C15_FileAvailability ==
    /\ ~archiveFile.exists =>
          /\ pc \in {"start", "no_archive", "stopped"}
          /\ df = None /\ runDf = <<>> /\ final_df = <<>> /\ calc = NoCalc
    /\ (Loaded /\ ~latestFile.exists) =>
          /\ Len(df.rows) = Len(archiveFile.rows)
          /\ \A k \in 1..Len(archiveFile.rows) :
                C15_Count(df.rows, archiveFile.rows[k])
                    = C15_Count(archiveFile.rows, archiveFile.rows[k])
    /\ (Loaded /\ ~indicesFile.exists) =>
          /\ \A i \in 1..Len(df.rows) : \A k \in 1..4 : IsNull(df.rows[i][idx_cols[k]])
          /\ Deflated => branch = "index100"

\* C21: every row of the merged table returned by load_data, archive rows and
\* overlay rows alike, has Period January or July and a defined Date, the
\* first day of month 01 or 07 of its Year.
C21_PeriodAndDate ==
    Loaded =>
        \A i \in 1..Len(df.rows) :
            /\ df.rows[i].Period \in {"January", "July"}
            /\ df.rows[i].Date # NaT
            /\ df.rows[i].Date = <<df.rows[i].Year, month_map[df.rows[i].Period]>>

C22_WageRowCount ==
    Len(archiveFile.rows) + (IF latestFile.exists THEN Len(latestFile.rows) ELSE 0)

\* C22: the left join of the wage table with the index table keeps the wage
\* rows one to one: the merged table has exactly as many rows as the wage
\* table (archive plus overlay), and the index table that process_indices
\* built has at most one row per (Year, Period), also when the raw series
\* has several January or July observations of one year.
C22_OneToOneJoin ==
    /\ indicesFile.exists =>
          \A i, j \in 1..Len(indicesFile.rows) :
              (/\ indicesFile.rows[i].Year = indicesFile.rows[j].Year
               /\ indicesFile.rows[i].Period = indicesFile.rows[j].Period) => i = j
    /\ Loaded => Len(df.rows) = C22_WageRowCount

\* C19: across any sequence of re-runs with changing parameters the cached
\* base table is never modified by a run, and the output of a run
\* (NominalWage, DisplayWage, filtered rows) is a function of the base table
\* as loaded and of that run's parameters only.
C19_RunsArePure ==
    /\ [][Loaded => df' = df]_vars
    /\ [](Loaded => df = Table(ffill(sortedDf)))
    /\ [](Ran => /\ runDf = Derive(ffill(sortedDf), params.hour_basis,
                                  params.deflator_key).table
                 /\ final_df = FilterRows(runDf, widgets.show_adult,
                                          widgets.selected_youth))

\* a run that follows runs with other widget values: categories changed, a
\* deflator chosen and a calculator date picked
C19_Witness ==
    /\ Ran
    /\ ~widgets.show_adult
    /\ widgets.selected_youth # {}
    /\ params.deflator_key # "None"
    /\ params.hour_basis # 36
    /\ calc.display = "shown"
    /\ calc.s_date_str # calc.available_dates[1]

-----------------------------------------------------------------------------
(* fetch_indices.process_indices as a program of its own *)

Series(cpi_fetched, cpi_monthly, cpi_yearly, cao_col, cao_monthly, cao_yearly) ==
    [cpi_fetched |-> cpi_fetched, cpi_monthly |-> cpi_monthly, cpi_yearly |-> cpi_yearly,
     cao_col |-> cao_col, cao_monthly |-> cao_monthly, cao_yearly |-> cao_yearly]

\* cao_col is None: the error is printed and process_indices returns
ProcessIndicesNoCaoColumn ==
    /\ ipc = "start"
    /\ ~series.cao_col
    /\ ipc' = "returned"
    /\ UNCHANGED <<series, index_table, appVars, viewVars, builderVars, currencyVars,
                   scraperVars>>

\* a failed CPI fetch gives frames without columns, and the merge on 'Year'
\* raises KeyError
ProcessIndicesRaises ==
    /\ ipc = "start"
    /\ series.cao_col
    /\ ~series.cpi_fetched
    /\ ipc' = "raised"
    /\ UNCHANGED <<series, index_table, appVars, viewVars, builderVars, currencyVars,
                   scraperVars>>

ProcessIndices ==
    /\ ipc = "start"
    /\ series.cao_col
    /\ series.cpi_fetched
    /\ index_table' = process_indices(series.cpi_monthly, series.cpi_yearly,
                                      series.cao_monthly, series.cao_yearly)
    /\ ipc' = "saved"
    /\ UNCHANGED <<series, appVars, viewVars, builderVars, currencyVars, scraperVars>>

\* parsed monthly CAO observations
CaoMonthlyUniverse ==
    <<Obs(2023, "January", Num(105)), Obs(2024, "July", Num(112))>>

CpiYearlyChoices == {c.cpi_yearly : c \in YearlyChoices}

CaoYearlyChoices == {c.cao_yearly : c \in YearlyChoices}

InitIndices ==
    /\ series \in {Series(f, IF f THEN m ELSE <<>>, IF f THEN y ELSE NoYearly, c,
                          IF c THEN cm ELSE <<>>, IF c THEN cy ELSE NoYearly) :
                      f \in BOOLEAN, c \in BOOLEAN,
                      m \in SubSeqs(CpiMonthlyUniverse, 0, MaxMonthlyObs),
                      y \in CpiYearlyChoices,
                      cm \in SubSeqs(CaoMonthlyUniverse, 0, MaxMonthlyObs),
                      cy \in CaoYearlyChoices}
    /\ index_table = <<>>
    /\ ipc = "start"
    /\ AppIdle
    /\ BuilderIdle
    /\ CurrencyIdle
    /\ ScraperIdle

NextIndices == ProcessIndicesNoCaoColumn \/ ProcessIndicesRaises \/ ProcessIndices

SpecIndices == InitIndices /\ [][NextIndices]_vars

IndexSaved == ipc = "saved"

C16_Matches(monthly, r) ==
    {k \in 1..Len(monthly) : monthly[k].Year = r.Year /\ monthly[k].Period = r.Period}

C16_YearlyCell(yearly, r) == IF r.Year \in DOMAIN yearly THEN yearly[r.Year] ELSE NULL

C16_MonthlyCellOk(monthly, r, cell) ==
    IF C16_Matches(monthly, r) = {} THEN IsNull(cell)
    ELSE \E k \in C16_Matches(monthly, r) : cell = monthly[k].Value

\* C16: the index table process_indices writes is dense over
\* [start_year, current_year + 1] x {January, July}; a yearly value is in both
\* rows of its year, a monthly value only in the row of its (Year, Period),
\* and a cell with no matching source value is null.
C16_DenseIndexTable ==
    IndexSaved =>
        /\ \A y \in START_YEAR..(NowYear + 1) : \A p \in {"January", "July"} :
              \E i \in 1..Len(index_table) :
                  index_table[i].Year = y /\ index_table[i].Period = p
        /\ \A i \in 1..Len(index_table) :
              /\ index_table[i].Year \in START_YEAR..(NowYear + 1)
              /\ index_table[i].Period \in {"January", "July"}
              /\ index_table[i].yearly_cpi = C16_YearlyCell(series.cpi_yearly, index_table[i])
              /\ index_table[i].yearly_cao = C16_YearlyCell(series.cao_yearly, index_table[i])
              /\ C16_MonthlyCellOk(series.cpi_monthly, index_table[i],
                                   index_table[i].monthly_cpi)
              /\ C16_MonthlyCellOk(series.cao_monthly, index_table[i],
                                   index_table[i].monthly_cao)

\* a table with a yearly value in both rows of 2023, a monthly value in one
\* row only, and null cells elsewhere
C16_Witness ==
    /\ IndexSaved
    /\ \E i, j, k \in 1..Len(index_table) :
          /\ index_table[i].Year = 2023 /\ index_table[i].Period = "January"
          /\ index_table[j].Year = 2023 /\ index_table[j].Period = "July"
          /\ NotNull(index_table[i].yearly_cpi)
          /\ index_table[j].yearly_cpi = index_table[i].yearly_cpi
          /\ NotNull(index_table[j].monthly_cpi)
          /\ IsNull(index_table[i].monthly_cpi)
          /\ IsNull(index_table[k].yearly_cpi)
          /\ index_table[k].Year = NowYear + 1

-----------------------------------------------------------------------------
(* scraper.scrape_latest *)

MIN_YEAR == 2026

BASE_URL == <<"h", "t", "t", "p", "s", ":", "/", "/", "w", "w", "w", ".", "r", "i", "j", "k", "s", "o", "v", "e", "r", "h", "e", "i", "d", ".", "n", "l">>

\* re.search(r'20\d{2}', link_text): the positions where a match starts
YearMatches(text) ==
    {i \in 1..(Len(text) - 3) :
        /\ text[i] = "2" /\ text[i + 1] = "0"
        /\ text[i + 2] \in Digits /\ text[i + 3] \in Digits}

\* int(year_match.group()) of the leftmost match
LinkYear(text) ==
    LET i == CHOOSE k \in YearMatches(text) : \A j \in YearMatches(text) : k <= j
    IN  DigitsVal(SubSeq(text, i, i + 3))

\* href if href.startswith('http') else BASE_URL + href
full_url(href) == IF IsPrefixAt(href, <<"h", "t", "t", "p">>, 1) THEN href ELSE BASE_URL \o href

RECURSIVE determine_period(_)
determine_period(text_sources) ==
    IF text_sources = <<>> THEN "None"
    ELSE LET t == Lower(Head(text_sources))
         IN  IF Contains(t, <<"j", "a", "n", "u", "a", "r", "i">>) \/ Contains(t, <<"j", "a", "n">>) THEN "January"
             ELSE IF Contains(t, <<"j", "u", "l", "i">>) \/ Contains(t, <<"j", "u", "l">>) THEN "July"
             ELSE determine_period(Tail(text_sources))

Link(link_text, href) == [link_text |-> link_text, href |-> href]

Title(string) == [present |-> TRUE, string |-> string]

\* psoup.title is None
NoTitle == [present |-> FALSE, string |-> <<>>]

HtmlTable(header, trs) == [header |-> header, trs |-> trs]

Page(fetch, title, tables) == [fetch |-> fetch, title |-> title, tables |-> tables]

\* the rows one tr adds to all_data
RowOf(year, current_period, cells) ==
    LET age_text == Strip(cells[1])
        wage_raw == Strip(cells[Len(cells)])
        age_clean == Strip(Replace(Replace(age_text, <<" ", "j", "a", "a", "r", " ", "e", "n", " ", "o", "u", "d", "e", "r">>, <<"+">>), <<" ", "j", "a", "a", "r">>, <<>>))
        adult == Contains(age_clean, <<"2", "1">>) /\ Contains(age_clean, <<"+">>)
        wage_float == clean_money(wage_raw).val
    IN  IF Len(cells) < 2 THEN <<>>
        ELSE IF \A k \in 1..Len(age_text) : age_text[k] \notin Digits THEN <<>>
        ELSE IF IsNull(wage_float) \/ IsZero(wage_float) THEN <<>>
        ELSE <<LatestRow(year, current_period, age_clean, adult, wage_float)>>

\* the rows one table adds: its tr elements after the first
TableRows(year, period_guess, table) ==
    LET from_header == determine_period(<<table.header>>)
        current_period == IF period_guess # "None" THEN period_guess
                          ELSE IF from_header # "None" THEN from_header ELSE "Unknown"
        rows == IF table.trs = <<>> THEN <<>> ELSE Tail(table.trs)
    IN  Flatten([k \in 1..Len(rows) |-> RowOf(year, current_period, rows[k])])

\* the rows a page that was fetched and has a title adds
PageRows(year, link_text, page) ==
    LET period_guess == determine_period(<<link_text, page.title.string>>)
    IN  Flatten([k \in 1..Len(page.tables) |-> TableRows(year, period_guess, page.tables[k])])

\* session.get raises, or psoup.title is None and .string raises AttributeError
PageFails(page) == page.fetch # "ok" \/ ~page.title.present

\* characters in the order Python compares them
CharOrder == <<" ", "+", ",", "-", ".", "/", "0", "1", "2", "3", "4", "5", "6", "7", "8", "9", ":">>
             \o UpperCase \o LowerCase

CharRank(c) == CHOOSE k \in 1..Len(CharOrder) : CharOrder[k] = c

RECURSIVE StrLt(_, _)
StrLt(a, b) ==
    IF b = <<>> THEN FALSE
    ELSE IF a = <<>> THEN TRUE
    ELSE IF Head(a) = Head(b) THEN StrLt(Tail(a), Tail(b))
    ELSE CharRank(Head(a)) < CharRank(Head(b))

PeriodChars(p) ==
    IF p = "January" THEN <<"J", "a", "n", "u", "a", "r", "y">> ELSE IF p = "July" THEN <<"J", "u", "l", "y">> ELSE <<"U", "n", "k", "n", "o", "w", "n">>

\* a sorts before b: Year descending, then Period ascending, then Age descending
SortsBefore(a, b) ==
    \/ a.Year > b.Year
    \/ a.Year = b.Year /\ StrLt(PeriodChars(a.Period), PeriodChars(b.Period))
    \/ a.Year = b.Year /\ a.Period = b.Period /\ StrLt(b.Age, a.Age)

\* new_df.sort_values(by=['Year', 'Period', 'Age'], ascending=[False, True, False])
RECURSIVE SortLatest(_)
SortLatest(rows) ==
    IF rows = <<>> THEN <<>>
    ELSE LET init == SortLatest(SubSeq(rows, 1, Len(rows) - 1))
             last == rows[Len(rows)]
             n == Cardinality({k \in 1..Len(init) : ~SortsBefore(last, init[k])})
         IN  SubSeq(init, 1, n) \o <<last>> \o SubSeq(init, n + 1, Len(init))

\* the loop stops at the first page that fails
AfterError_Abort(i, n) == n + 1

\* except Exception: the error is logged and the loop goes on with the next link
AfterError(i, n) == i + 1

\* session.get(OVERVIEW_URL) or raise_for_status raises: logged, return
FetchOverviewFails ==
    /\ spc = "start"
    /\ ~overview.ok
    /\ spc' = "returned"
    /\ UNCHANGED <<overview, pages, link_i, seen_urls, fetched, all_data, outputFile,
                   appVars, viewVars, builderVars, currencyVars, indexVars>>

FetchOverview ==
    /\ spc = "start"
    /\ overview.ok
    /\ spc' = "links"
    /\ link_i' = 1
    /\ UNCHANGED <<overview, pages, seen_urls, fetched, all_data, outputFile,
                   appVars, viewVars, builderVars, currencyVars, indexVars>>

\* one pass of the loop over the overview's links
VisitLink ==
    /\ spc = "links"
    /\ link_i <= Len(overview.links)
    /\ LET a == overview.links[link_i]
           url == full_url(a.href)
           wanted == /\ YearMatches(a.link_text) # {}
                     /\ LinkYear(a.link_text) >= MIN_YEAR
                     /\ url \notin seen_urls
           page == pages[url]
       IN  IF ~wanted
           THEN /\ link_i' = link_i + 1
                /\ UNCHANGED <<seen_urls, fetched, all_data>>
           ELSE /\ seen_urls' = seen_urls \cup {url}
                /\ fetched' = Append(fetched, url)
                /\ IF PageFails(page)
                   THEN /\ link_i' = AfterError(link_i, Len(overview.links))
                        /\ UNCHANGED all_data
                   ELSE /\ link_i' = link_i + 1
                        /\ all_data' = all_data \o PageRows(LinkYear(a.link_text),
                                                            a.link_text, page)
    /\ UNCHANGED <<overview, pages, outputFile, spc,
                   appVars, viewVars, builderVars, currencyVars, indexVars>>

\* if all_data: sort and to_csv; else only a log line
Save ==
    /\ spc = "links"
    /\ link_i > Len(overview.links)
    /\ IF all_data # <<>>
       THEN /\ outputFile' = LatestFile("float", SortLatest(all_data))
            /\ spc' = "saved"
       ELSE /\ spc' = "no_data"
            /\ UNCHANGED outputFile
    /\ UNCHANGED <<overview, pages, link_i, seen_urls, fetched, all_data,
                   appVars, viewVars, builderVars, currencyVars, indexVars>>

-----------------------------------------------------------------------------
(* Inputs of the scraper *)

MaxLinks == 3

\* links of the overview page: two to the same 2026 page (one relative, one
\* absolute), two to a second page (one with the period in its text, one
\* without), one to a 2025 page, one without a year
LinkUniverse ==
    <<Link(<<"M", "W", " ", "2", "0", "2", "6">>, <<"/", "a">>),
      Link(<<"1", " ", "j", "u", "l", "i", " ", "2", "0", "2", "6">>, <<"/", "b">>),
      Link(<<"2", "0", "2", "7">>, <<"/", "b">>),
      Link(<<"2", "0", "2", "6">>, BASE_URL \o <<"/", "a">>),
      Link(<<"M", "W", " ", "2", "0", "2", "5">>, <<"/", "c">>),
      Link(<<"C", "o", "n", "t", "a", "c", "t">>, <<"/", "d">>)>>

\* a page with one table and its period in the title; a footnote row with
\* one cell, a row without an age and a row without an amount
PageA ==
    Page("ok", Title(<<"J", "a", "n", "u", "a", "r", "i", " ", "2", "0", "2", "6">>),
         <<HtmlTable(<<>>,
                     <<<<<<"L", "e", "e", "f", "t", "i", "j", "d">>, <<"P", "e", "r", " ", "u", "u", "r">>>>,
                       <<<<"2", "1", " ", "j", "a", "a", "r", " ", "e", "n", " ", "o", "u", "d", "e", "r">>, <<"EUR", " ", "1", "4", ",", "7", "1">>>>,
                       <<<<"2", "0", " ", "j", "a", "a", "r">>, <<"EUR", " ", "1", "1", ",", "7", "7">>>>,
                       <<<<"B", "r", "o", "n", ":", " ", "S", "Z", "W">>>>,
                       <<<<"N", "o", "o", "t">>, <<"1", ",", "0", "0">>>>,
                       <<<<"1", "5", " ", "j", "a", "a", "r">>, <<"-">>>>>>)>>)

\* a page with two tables: only the second has no period in any header
PageB ==
    Page("ok", Title(<<"B", "e", "d", "r", "a", "g", "e", "n">>),
         <<HtmlTable(<<"P", "e", "r", " ", "1", " ", "j", "u", "l", "i">>,
                     <<<<<<"L", "e", "e", "f", "t", "i", "j", "d">>, <<"P", "e", "r", " ", "u", "u", "r">>>>,
                       <<<<"2", "1", " ", "j", "a", "a", "r", " ", "e", "n", " ", "o", "u", "d", "e", "r">>, <<"1", "5", ",", "0", "2">>>>>>),
           HtmlTable(<<"O", "v", "e", "r", "i", "g">>,
                     <<<<<<"L", "e", "e", "f", "t", "i", "j", "d">>, <<"P", "e", "r", " ", "u", "u", "r">>>>,
                       <<<<"1", "8", " ", "j", "a", "a", "r">>, <<"7", ",", "5", "1">>>>>>)>>)

PageC ==
    Page("ok", Title(<<"J", "u", "l", "i", " ", "2", "0", "2", "5">>),
         <<HtmlTable(<<>>, <<<<<<"L", "e", "e", "f", "t", "i", "j", "d">>, <<"P", "e", "r", " ", "u", "u", "r">>>>, <<<<"2", "1", " ", "j", "a", "a", "r", " ", "e", "n", " ", "o", "u", "d", "e", "r">>, <<"1", "4", ",", "4", "0">>>>>>)>>)

FetchError == Page("error", NoTitle, <<>>)

URL_A == BASE_URL \o <<"/", "a">>

URL_B == BASE_URL \o <<"/", "b">>

URL_C == BASE_URL \o <<"/", "c">>

\* what each URL serves: the page, a network error, the page without a
\* title element, a page without tables
PageMaps ==
    {[u \in {URL_A, URL_B, URL_C} |->
        IF u = URL_A THEN a ELSE IF u = URL_B THEN b ELSE PageC] :
        a \in {PageA, FetchError, Page("ok", NoTitle, PageA.tables), Page("ok", Title(<<>>), <<>>)},
        b \in {PageB, FetchError, Page("ok", NoTitle, PageB.tables)}}

InitScraper ==
    /\ overview \in {[ok |-> ok, links |-> IF ok THEN links ELSE <<>>] :
                        ok \in BOOLEAN, links \in SubSeqs(LinkUniverse, 0, MaxLinks)}
    /\ pages \in PageMaps
    /\ link_i = 0
    /\ seen_urls = {}
    /\ fetched = <<>>
    /\ all_data = <<>>
    /\ outputFile = LatestMissing
    /\ spc = "start"
    /\ AppIdle
    /\ BuilderIdle
    /\ CurrencyIdle
    /\ IndexIdle

NextScraper == FetchOverviewFails \/ FetchOverview \/ VisitLink \/ Save

SpecScraper == InitScraper /\ [][NextScraper]_vars

-----------------------------------------------------------------------------
(* Claims about the scraper *)

ScrapeEnded == spc \in {"saved", "no_data"}

C20_Eligible ==
    {k \in 1..Len(overview.links) :
        /\ YearMatches(overview.links[k].link_text) # {}
        /\ LinkYear(overview.links[k].link_text) >= MIN_YEAR}

\* the eligible links that are the first to their page
C20_First ==
    {k \in C20_Eligible :
        \A j \in C20_Eligible :
            full_url(overview.links[j].href) = full_url(overview.links[k].href) => k <= j}

C20_FetchCount(url) == Cardinality({i \in 1..Len(fetched) : fetched[i] = url})

\* C20: once the overview page has been fetched, a failure while fetching or
\* parsing one linked page does not abort the batch: every distinct linked
\* page with a year >= MIN_YEAR is fetched exactly once, and the rows of the
\* pages that succeeded are saved.
C20_PageFailureIsolated ==
    /\ spc = "links" => overview.ok
    /\ ScrapeEnded =>
          /\ \A k \in C20_Eligible : C20_FetchCount(full_url(overview.links[k].href)) = 1
          /\ Len(fetched) = Cardinality(C20_First)
          /\ \A k \in C20_First :
                LET a == overview.links[k]
                    page == pages[full_url(a.href)]
                    rows == PageRows(LinkYear(a.link_text), a.link_text, page)
                IN  ~PageFails(page) =>
                        \A r \in 1..Len(rows) :
                            /\ spc = "saved"
                            /\ \E i \in 1..Len(outputFile.rows) : outputFile.rows[i] = rows[r]

\* a run in which a page failed and a page fetched after it had its rows saved
C20_Witness ==
    /\ spc = "saved"
    /\ \E i, j \in 1..Len(fetched) :
          /\ i < j
          /\ PageFails(pages[fetched[i]])
          /\ ~PageFails(pages[fetched[j]])
          /\ \E r \in 1..Len(outputFile.rows) : outputFile.rows[r].Period = "July"

====
